---- MODULE Spec2Model ----
(***************************************************************************)
(* Model of gpu-burn/scripts/monitor_gpu_optimized.py:                     *)
(*   - StreamingDataManager (the bounded streaming buffer),                *)
(*   - OptimizedGPUMonitor  (the collection loop, its signal handler and   *)
(*     its writes of the output file),                                     *)
(*   - SystemMonitor's counter-based rate metrics (the rate tracker),      *)
(*   - GPUDataCollector (device discovery, the two nvidia-smi queries of   *)
(*     a tick and the merge of their results into a sample),               *)
(* and of gpu-burn/scripts/utils.py:                                       *)
(*   - retry_on_failure (the retry wrapper),                               *)
(*   - validate_gpu_data (the per-reading guard),                          *)
(* and of gpu-burn/scripts/gpu_analysis_core_optimized.py:                 *)
(*   - GPUDataValidator.validate_monitoring_data (the batch guard),        *)
(*   - analyze_single_gpu_baseline and analyze_all_gpu_stress,             *)
(*   - parse_gpu_burn_logs (the throughput-log parser).                    *)
(*                                                                         *)
(* A sample is modelled by the number that identifies it: the iteration    *)
(* tag the loop gives it, or the index of the call for a direct push.      *)
(***************************************************************************)
EXTENDS Integers, Sequences, FiniteSets, TLC

VARIABLES
    \* StreamingDataManager
    data_buffer,      \* self.data_buffer
    total_samples,    \* self.total_samples
    max_samples,      \* self.max_samples
    save_interval,    \* self.save_interval (shared with the monitor)
    returned,         \* the list last returned by get_final_data
    \* OptimizedGPUMonitor
    pc,               \* position of start_monitoring
    running,          \* self.running
    interrupted,      \* self.interrupted
    iteration,        \* local variable iteration
    interval,         \* self.interval
    snapshot,         \* local variable snapshot (0: none yet)
    file,             \* content of self.output_file
    exc,              \* the exception that escaped the last call / the tick
    \* history (not read by the program)
    pushed,           \* every sample handed to add_sample, in order
    saves,            \* every call of _save_data, in order
    signals,          \* number of signals delivered to _signal_handler
    firstSignal,      \* where the loop was when the first signal arrived
    \* SystemMonitor
    last_values,      \* self._last_values
    obs,              \* the last rate call: its inputs, what it found stored, its result
    cpu_sample_initialized,  \* self._cpu_sample_initialized
    system_basic,     \* the last call of get_system_basic: its sources, what it returned
    \* retry_on_failure
    max_retries,      \* the decorator's max_retries
    attempt,          \* the loop variable attempt
    last_exception,   \* the local last_exception
    rpc,              \* position of the wrapper
    rout,             \* how the wrapper ended: what it returned or raised
    calls,            \* history: the outcome of every invocation of func, in order
    sleeps,           \* history: the attempts after which time.sleep(delay) ran
    \* validate_gpu_data
    enable_validation,  \* config.validation_config['enable_validation']
    gpu_data,           \* the argument gpu_data
    valid_ret,          \* the call of validate_gpu_data: whether made, what it returned
    \* gpu_analysis_core_optimized
    monitoring_data,    \* phase data: the list of samples
    gflops_data,        \* phase data: the throughput-log entries, in dict order
    analysis,           \* the last call of the analysis: its name and what it returned
    log_file,           \* the throughput log handed to parse_gpu_burn_logs
    \* GPUDataCollector
    cuda_visible,       \* the environment variable CUDA_VISIBLE_DEVICES
    gpu_sample,         \* what collect_gpu_data returned last
    queries,            \* history: the external queries of the last collect_gpu_data
    run                 \* history of one run of main: ticks, discoveries, listings, exit

bufVars  == <<data_buffer, total_samples, max_samples, save_interval, returned>>
loopVars == <<pc, running, interrupted, iteration, interval, snapshot, file>>
histVars == <<exc, pushed, saves, signals, firstSignal>>
rateVars == <<last_values, obs, cpu_sample_initialized, system_basic>>
retryVars == <<max_retries, attempt, last_exception, rpc, rout, calls, sleeps>>
validVars == <<enable_validation, gpu_data, valid_ret>>
analysisVars == <<monitoring_data, gflops_data, analysis, log_file>>
queryVars == <<cuda_visible, gpu_sample, queries, run>>
vars     == <<bufVars, loopVars, histVars, rateVars, retryVars, validVars, analysisVars,
              queryVars>>

\* What the monitor (buffer and loop) and the rate tracker leave alone.
outsideMonitor  == <<rateVars, retryVars, validVars, analysisVars, queryVars>>
outsideRate     == <<bufVars, loopVars, histVars, retryVars, validVars, analysisVars, queryVars>>
outsideRetry    == <<bufVars, loopVars, histVars, rateVars, validVars, analysisVars, queryVars>>
outsideValid    == <<bufVars, loopVars, histVars, rateVars, retryVars, analysisVars, queryVars>>
outsideAnalysis == <<bufVars, loopVars, histVars, rateVars, retryVars, validVars, queryVars>>
outsideQuery    == <<bufVars, loopVars, histVars, rateVars, retryVars, analysisVars>>

(***************************************************************************)
(* Bounds of the model.                                                    *)
(***************************************************************************)
MaxTicks        == 4    \* ticks the collection loop may start
MaxSignals      == 2    \* signals delivered in one behaviour
MaxSaveInterval == 3    \* save_interval ranges over 0..MaxSaveInterval
MaxCapacity     == 3    \* max_samples ranges over 1..MaxCapacity (buffer alone)
MaxPushes       == 5    \* direct add_sample calls (buffer alone)

(***************************************************************************)
(* Program constants.                                                      *)
(***************************************************************************)
MonitorMaxSamples == 1000   \* StreamingDataManager(max_samples=1000, ...)

NoFile   == [written |-> FALSE]
NoSignal == [iter |-> -1, pc |-> "none"]

SaveIntervals == 0..MaxSaveInterval
Intervals     == {-1, 1}       \* --interval: negative makes time.sleep raise

(***************************************************************************)
(* StreamingDataManager                                                    *)
(***************************************************************************)

\* _save_buffer: nothing to do on an empty buffer; otherwise logs and clears.
\* The buffer is not written anywhere.  (The except clause guards only the
\* debug log line and list.clear(), neither of which raises.)
save_buffer(buf) == IF buf = <<>> THEN buf ELSE <<>>

\* get_final_data: a copy of the buffer.
get_final_data(buf) == buf

shares_buffer == TRUE

\* return self.data_buffer.copy(): the returned list is a new object, not
\* the buffer itself.
returned_shares_buffer == FALSE

\* A value that is no sample: what a caller may put into the list it got.
Foreign == 0
HasForeign(q) == \E i \in 1..Len(q) : q[i] = Foreign

add_sample_flushes_when_full_only(buf, total, maxs, si, s) ==
    LET b1 == Append(buf, s)
        t1 == total + 1
    IN  IF Len(b1) >= maxs
        THEN [buf |-> save_buffer(b1), total |-> t1, exc |-> "none"]
        ELSE IF si = 0
        THEN [buf |-> b1, total |-> t1, exc |-> "ZeroDivisionError"]
        ELSE [buf |-> b1, total |-> t1, exc |-> "none"]

add_sample_no_bound(buf, total, maxs, si, s) ==
    LET b1 == Append(buf, s)
        t1 == total + 1
    IN  IF si = 0
        THEN [buf |-> b1, total |-> t1, exc |-> "ZeroDivisionError"]
        ELSE IF t1 % si = 0
        THEN [buf |-> save_buffer(b1), total |-> t1, exc |-> "none"]
        ELSE [buf |-> b1, total |-> t1, exc |-> "none"]

add_sample_resets_total(buf, total, maxs, si, s) ==
    LET b1 == Append(buf, s)
        t1 == total + 1
    IN  IF Len(b1) >= maxs
        THEN [buf |-> save_buffer(b1), total |-> 0, exc |-> "none"]
        ELSE IF si = 0
        THEN [buf |-> b1, total |-> t1, exc |-> "ZeroDivisionError"]
        ELSE IF t1 % si = 0
        THEN [buf |-> save_buffer(b1), total |-> 0, exc |-> "none"]
        ELSE [buf |-> b1, total |-> t1, exc |-> "none"]

\* add_sample: append, count, then flush when the buffer is full or the
\* count is a multiple of save_interval.  `or` short-circuits: the modulo is
\* evaluated only when the buffer is not full, and raises ZeroDivisionError
\* for save_interval = 0 (after the append and the increment).
add_sample(buf, total, maxs, si, s) ==
    LET b1 == Append(buf, s)
        t1 == total + 1
    IN  IF Len(b1) >= maxs
        THEN [buf |-> save_buffer(b1), total |-> t1, exc |-> "none"]
        ELSE IF si = 0
        THEN [buf |-> b1, total |-> t1, exc |-> "ZeroDivisionError"]
        ELSE IF t1 % si = 0
        THEN [buf |-> save_buffer(b1), total |-> t1, exc |-> "none"]
        ELSE [buf |-> b1, total |-> t1, exc |-> "none"]

\* A direct call of add_sample (as the repository's test makes).
BufAddSample ==
    /\ Len(pushed) < MaxPushes
    /\ LET s == Len(pushed) + 1
           r == add_sample(data_buffer, total_samples, max_samples, save_interval, s)
       IN  /\ data_buffer' = r.buf
           /\ total_samples' = r.total
           /\ exc' = r.exc
           /\ pushed' = Append(pushed, s)
    /\ UNCHANGED <<outsideMonitor, max_samples, save_interval, returned, loopVars, saves,
                   signals, firstSignal>>

\* A direct call of _save_buffer.
BufSaveBuffer ==
    /\ data_buffer # <<>>
    /\ data_buffer' = save_buffer(data_buffer)
    /\ exc' = "none"
    /\ UNCHANGED <<outsideMonitor, total_samples, max_samples, save_interval, returned, loopVars,
                   pushed, saves, signals, firstSignal>>

\* A direct call of get_final_data.
BufGetFinalData ==
    /\ returned # get_final_data(data_buffer)
    /\ returned' = get_final_data(data_buffer)
    /\ exc' = "none"
    /\ UNCHANGED <<outsideMonitor, data_buffer, total_samples, max_samples, save_interval, loopVars,
                   pushed, saves, signals, firstSignal>>

\* The caller changes the list it got from get_final_data (appends to it).
\* Were the list the buffer itself, the buffer would change with it.
BufChangeReturned ==
    /\ ~HasForeign(returned)
    /\ returned' = Append(returned, Foreign)
    /\ data_buffer' = IF returned_shares_buffer /\ returned = data_buffer
                      THEN returned'
                      ELSE data_buffer
    /\ UNCHANGED <<outsideMonitor, total_samples, max_samples, save_interval, loopVars, exc,
                   pushed, saves, signals, firstSignal>>

(***************************************************************************)
(* OptimizedGPUMonitor                                                     *)
(***************************************************************************)

\* The record _save_data builds from the buffer: metadata and samples.
output_data(buf, is_final) ==
    LET data == get_final_data(buf)
    IN  [written       |-> TRUE,
         total_samples |-> Len(data),
         is_final      |-> is_final,
         samples       |-> data]

\* _save_data: builds the record and writes it over the output file; an
\* error of makedirs/open/dump is caught and logged, the file keeps its
\* content.  `collected` notes the buffer's cumulative count at the call,
\* `interrupted` the flag at the call.
save_data(is_final, ok) ==
    /\ saves' = Append(saves, [is_final      |-> is_final,
                               ok            |-> ok,
                               interrupted   |-> interrupted,
                               total_samples |-> output_data(data_buffer, is_final).total_samples,
                               samples       |-> output_data(data_buffer, is_final).samples,
                               collected     |-> total_samples])
    /\ file' = IF ok THEN output_data(data_buffer, is_final) ELSE file

\* The loop condition: while self.running and not self.interrupted
while_cond(r, i) == r /\ ~i

\* start_monitoring up to the loop: running = True, handlers installed,
\* iteration = 0.
StartMonitoring ==
    /\ pc = "idle"
    /\ running' = TRUE
    /\ iteration' = 0
    /\ pc' = "check"
    /\ UNCHANGED <<outsideMonitor, bufVars, interrupted, interval, snapshot, file, histVars>>

MaxRuns == 2                     \* calls of start_monitoring on one monitor

\* The runs that have ended: one final _save_data each.
runs_ended == Cardinality({i \in DOMAIN saves : saves[i].is_final})

StartMonitoringAgainResetsFlag ==
    /\ pc = "done"
    /\ runs_ended < MaxRuns
    /\ running' = TRUE
    /\ interrupted' = FALSE
    /\ iteration' = 0
    /\ pc' = "check"
    /\ UNCHANGED <<outsideMonitor, bufVars, interval, snapshot, file, histVars>>

\* A further call of start_monitoring on a monitor whose run has ended:
\* running = True and iteration = 0 as in the first call; self.interrupted
\* is not assigned and the buffer is the one the earlier run left.
StartMonitoringAgain ==
    /\ pc = "done"
    /\ runs_ended < MaxRuns
    /\ running' = TRUE
    /\ iteration' = 0
    /\ pc' = "check"
    /\ UNCHANGED <<outsideMonitor, bufVars, interrupted, interval, snapshot, file, histVars>>

\* Top of the loop: test the flags; a new tick starts with iteration += 1.
WhileCheck ==
    /\ pc = "check"
    /\ IF while_cond(running, interrupted)
       THEN /\ iteration < MaxTicks
            /\ iteration' = iteration + 1
            /\ pc' = "collect"
       ELSE /\ pc' = "finally"
            /\ UNCHANGED iteration
    /\ UNCHANGED <<outsideMonitor, bufVars, running, interrupted, interval, snapshot, file, histVars>>

CollectTagsFromZero ==
    /\ pc = "collect"
    /\ snapshot' = iteration - 1
    /\ pc' = "add"
    /\ UNCHANGED <<outsideMonitor, bufVars, running, interrupted, iteration, interval, file, histVars>>

\* collect_gpu_data, get_system_basic (both catch every exception) and the
\* iteration tag.
Collect ==
    /\ pc = "collect"
    /\ snapshot' = iteration
    /\ pc' = "add"
    /\ UNCHANGED <<outsideMonitor, bufVars, running, interrupted, iteration, interval, file, histVars>>

\* self.data_manager.add_sample(snapshot); an exception leaves the try block.
AddSample ==
    /\ pc = "add"
    /\ LET r == add_sample(data_buffer, total_samples, max_samples, save_interval, snapshot)
       IN  /\ data_buffer' = r.buf
           /\ total_samples' = r.total
           /\ exc' = r.exc
           /\ pushed' = Append(pushed, snapshot)
           /\ pc' = IF r.exc = "none" THEN "save" ELSE "finally"
    /\ UNCHANGED <<outsideMonitor, max_samples, save_interval, returned, running, interrupted,
                   iteration, interval, snapshot, file, saves, signals, firstSignal>>

\* if iteration % self.save_interval == 0: self._save_data(False)
PeriodicSave ==
    /\ pc = "save"
    /\ IF save_interval = 0
       THEN /\ exc' = "ZeroDivisionError"
            /\ pc' = "finally"
            /\ UNCHANGED <<saves, file>>
       ELSE IF iteration % save_interval = 0
       THEN /\ \E ok \in BOOLEAN : save_data(FALSE, ok)
            /\ pc' = "sleep"
            /\ UNCHANGED exc
       ELSE /\ pc' = "sleep"
            /\ UNCHANGED <<saves, file, exc>>
    /\ UNCHANGED <<outsideMonitor, bufVars, running, interrupted, iteration, interval, snapshot,
                   pushed, signals, firstSignal>>

\* time.sleep(self.interval): ValueError for a negative interval.
Sleep ==
    /\ pc = "sleep"
    /\ IF interval < 0
       THEN /\ exc' = "ValueError"
            /\ pc' = "finally"
       ELSE /\ pc' = "check"
            /\ UNCHANGED exc
    /\ UNCHANGED <<outsideMonitor, bufVars, running, interrupted, iteration, interval, snapshot,
                   file, pushed, saves, signals, firstSignal>>

FinallyNoSave ==
    /\ pc = "finally"
    /\ running' = FALSE
    /\ pc' = "done"
    /\ UNCHANGED <<outsideMonitor, bufVars, interrupted, iteration, interval, snapshot, file, histVars>>

\* The except clauses only log; finally: running = False, _save_data(True).
Finally ==
    /\ pc = "finally"
    /\ running' = FALSE
    /\ \E ok \in BOOLEAN : save_data(TRUE, ok)
    /\ pc' = "done"
    /\ UNCHANGED <<outsideMonitor, bufVars, interrupted, iteration, interval, snapshot,
                   exc, pushed, signals, firstSignal>>

signal_handler_saves ==
    /\ pc # "idle"
    /\ signals < MaxSignals
    /\ interrupted' = TRUE
    /\ running' = FALSE
    /\ save_data(TRUE, TRUE)
    /\ signals' = signals + 1
    /\ firstSignal' = IF signals = 0 THEN [iter |-> iteration, pc |-> pc] ELSE firstSignal
    /\ UNCHANGED <<outsideMonitor, bufVars, pc, iteration, interval, snapshot, exc, pushed>>

signal_handler_preempts ==
    /\ pc # "idle"
    /\ signals < MaxSignals
    /\ interrupted' = TRUE
    /\ running' = FALSE
    /\ pc' = IF pc = "done" THEN pc ELSE "finally"
    /\ signals' = signals + 1
    /\ firstSignal' = IF signals = 0 THEN [iter |-> iteration, pc |-> pc] ELSE firstSignal
    /\ UNCHANGED <<outsideMonitor, bufVars, iteration, interval, snapshot, file, exc, pushed, saves>>

signal_handler_logs_only ==
    /\ pc # "idle"
    /\ signals < MaxSignals
    /\ signals' = signals + 1
    /\ firstSignal' = IF signals = 0 THEN [iter |-> iteration, pc |-> pc] ELSE firstSignal
    /\ UNCHANGED <<outsideMonitor, bufVars, loopVars, exc, pushed, saves>>

\* _signal_handler, installed by start_monitoring for SIGINT and SIGTERM and
\* never removed: sets the two flags, whatever the loop is doing.
signal_handler ==
    /\ pc # "idle"
    /\ signals < MaxSignals
    /\ interrupted' = TRUE
    /\ running' = FALSE
    /\ signals' = signals + 1
    /\ firstSignal' = IF signals = 0 THEN [iter |-> iteration, pc |-> pc] ELSE firstSignal
    /\ UNCHANGED <<outsideMonitor, bufVars, pc, iteration, interval, snapshot, file, exc, pushed, saves>>

(***************************************************************************)
(* SystemMonitor: rates computed from counters                             *)
(*                                                                         *)
(* _last_values is a dict; a key that is absent is modelled by 0, which is *)
(* how the code reads it: "'k' in d and d['k'] > 0" for the timestamps and *)
(* d.get(k, 0) for the counters.  Times are whole seconds >= 1.            *)
(***************************************************************************)
CtxtCeiling        == 10000000   \* min(10000000, int(ctxt_rate))
MinorFaultsCeiling == 1000000    \* min(1000000, int(minor_rate))
MajorFaultsCeiling == 100000     \* min(100000, int(major_rate))
TotalFaultsCeiling == 1100000    \* min(1100000, int(minor_rate + major_rate))

MaxTime == 3                     \* time.time() ranges over 1..MaxTime

Times         == 1..MaxTime
CtxtCounters  == {0, 7, 25000000}                \* the ctxt line of /proc/stat
FaultCounters == {<<7, 2>>, <<9, 2>>, <<3000000, 250000>>}   \* <<pgfault, pgmajfault>>
SwapCounters  == {<<0, 0>>, <<25000000, 4>>}       \* <<pswpin, pswpout>> of /proc/vmstat

NoLastValues ==
    [last_ctxt_time |-> 0, last_ctxt_value |-> 0,
     last_pgfault_time |-> 0, minor_faults |-> 0, major_faults |-> 0,
     last_swap_time |-> 0, pswpin |-> 0, pswpout |-> 0]
NoObs == [metric |-> "none"]

Min(a, b) == IF a <= b THEN a ELSE b
Max(a, b) == IF a >= b THEN a ELSE b

\* int(a / b) for b > 0: Python's int() truncates toward zero.
int_div(a, b) == IF a >= 0 THEN a \div b ELSE -((-a) \div b)

clamp_ceiling_only(x, ceiling) == Min(ceiling, x)

\* max(0, min(ceiling, x))
clamp(x, ceiling) == Max(0, Min(ceiling, x))

\* _get_context_switches: [lv |-> the new _last_values, ret |-> the result].
\* `readable` is false when /proc/stat cannot be read or holds no ctxt line.
get_context_switches(lv, readable, current_ctxt, current_time) ==
    IF ~readable THEN [lv |-> lv, ret |-> 0]
    ELSE LET stored == [lv EXCEPT !.last_ctxt_value = current_ctxt,
                                  !.last_ctxt_time = current_time]
             time_diff == current_time - lv.last_ctxt_time
         IN  IF lv.last_ctxt_time > 0 /\ time_diff > 0
             THEN [lv |-> stored,
                   ret |-> clamp(int_div(current_ctxt - lv.last_ctxt_value, time_diff),
                                 CtxtCeiling)]
             ELSE [lv |-> stored, ret |-> 0]

ZeroFaults ==
    [minor_faults_per_sec |-> 0, major_faults_per_sec |-> 0, total_faults_per_sec |-> 0]

\* _get_page_faults: minor faults are pgfault - pgmajfault.
get_page_faults(lv, readable, pgfault, pgmajfault, current_time) ==
    IF ~readable THEN [lv |-> lv, ret |-> ZeroFaults]
    ELSE LET minor == pgfault - pgmajfault
             stored == [lv EXCEPT !.minor_faults = minor,
                                  !.major_faults = pgmajfault,
                                  !.last_pgfault_time = current_time]
             time_diff == current_time - lv.last_pgfault_time
             dminor == minor - lv.minor_faults
             dmajor == pgmajfault - lv.major_faults
         IN  IF lv.last_pgfault_time > 0 /\ time_diff > 0
             THEN [lv |-> stored,
                   ret |-> [minor_faults_per_sec |->
                                clamp(int_div(dminor, time_diff), MinorFaultsCeiling),
                            major_faults_per_sec |->
                                clamp(int_div(dmajor, time_diff), MajorFaultsCeiling),
                            total_faults_per_sec |->
                                clamp(int_div(dminor + dmajor, time_diff), TotalFaultsCeiling)]]
             ELSE [lv |-> stored, ret |-> ZeroFaults]

ZeroSwap == [pswpin_per_sec |-> 0, pswpout_per_sec |-> 0]

\* _get_swap_activity: the rates have a floor of 0 and no ceiling.
get_swap_activity(lv, readable, pswpin, pswpout, current_time) ==
    IF ~readable THEN [lv |-> lv, ret |-> ZeroSwap]
    ELSE LET stored == [lv EXCEPT !.pswpin = pswpin,
                                  !.pswpout = pswpout,
                                  !.last_swap_time = current_time]
             time_diff == current_time - lv.last_swap_time
         IN  IF lv.last_swap_time > 0 /\ time_diff > 0
             THEN [lv |-> stored,
                   ret |-> [pswpin_per_sec |->
                                Max(0, int_div(pswpin - lv.pswpin, time_diff)),
                            pswpout_per_sec |->
                                Max(0, int_div(pswpout - lv.pswpout, time_diff))]]
             ELSE [lv |-> stored, ret |-> ZeroSwap]

\* A call of _get_context_switches at some time, with some counter value.
ObserveContextSwitches ==
    \E readable \in BOOLEAN, c \in CtxtCounters, now \in Times :
        LET r == get_context_switches(last_values, readable, c, now)
        IN  /\ last_values' = r.lv
            /\ obs' = [metric |-> "ctxt", readable |-> readable, now |-> now,
                       counter |-> c, before |-> last_values, ret |-> r.ret]
            /\ UNCHANGED <<outsideRate, cpu_sample_initialized, system_basic>>

\* A call of _get_page_faults at some time, with some counter values.
ObservePageFaults ==
    \E readable \in BOOLEAN, c \in FaultCounters, now \in Times :
        LET r == get_page_faults(last_values, readable, c[1], c[2], now)
        IN  /\ last_values' = r.lv
            /\ obs' = [metric |-> "pgfault", readable |-> readable, now |-> now,
                       counter |-> c, before |-> last_values, ret |-> r.ret]
            /\ UNCHANGED <<outsideRate, cpu_sample_initialized, system_basic>>

\* A call of _get_swap_activity at some time, with some counter values.
ObserveSwapActivity ==
    \E readable \in BOOLEAN, c \in SwapCounters, now \in Times :
        LET r == get_swap_activity(last_values, readable, c[1], c[2], now)
        IN  /\ last_values' = r.lv
            /\ obs' = [metric |-> "swap", readable |-> readable, now |-> now,
                       counter |-> c, before |-> last_values, ret |-> r.ret]
            /\ UNCHANGED <<outsideRate, cpu_sample_initialized, system_basic>>

(***************************************************************************)
(* SystemMonitor.get_system_basic                                          *)
(*                                                                         *)
(* The sources of one call: psutil (cpu_percent, virtual_memory and        *)
(* cpu_count before the helpers, swap_memory after them), /proc/stat and   *)
(* /proc/vmstat.  The snapshot is modelled with the metrics that come from *)
(* these sources; the load, run-queue, pressure, disk and network metrics  *)
(* are left out.                                                           *)
(***************************************************************************)
MaxHostCalls == 2                \* calls of get_system_basic

PsutilOutcomes == {"ok", "memory_raises", "swap_raises"}
SwapTotals     == {0, 2048}      \* psutil.swap_memory().total in MB

\* The counters of /proc/stat and /proc/vmstat at an earlier and at a later
\* moment: <<ctxt, <<pgfault, pgmajfault>>, <<pswpin, pswpout>>>>.
HostCounters   == {<<0, <<7, 2>>, <<0, 0>>>>, <<7, <<9, 2>>, <<25000000, 4>>>>}

\* What psutil reports when it answers.
psutil_reading(name) ==
    CASE name = "cpu_percent"           -> 30
      [] name = "memory_percent"        -> 40
      [] name = "memory_available_pct"  -> 60
      [] name = "cpu_count"             -> 8
      [] name = "swap_percent"          -> 25

\* _get_default_system_data (the metrics of the model)
get_default_system_data ==
    [cpu_utilization_total |-> 0, memory_utilization |-> 0, cpu_cores |-> 1,
     context_switches_per_sec |-> 0, minor_faults_per_sec |-> 0,
     major_faults_per_sec |-> 0, total_faults_per_sec |-> 0,
     memory_available_pct |-> 50, swap_out_per_sec |-> 0, swap_total_mb |-> 0,
     swap_used_pct |-> 0]

\* psutil.swap_memory().percent if psutil.swap_memory().total > 0 else -1
swap_used_pct(total) == IF total > 0 THEN psutil_reading("swap_percent") ELSE -1

\* get_system_basic: [lv |-> the new _last_values, init |-> the new
\* _cpu_sample_initialized, ret |-> the snapshot].  An exception of psutil
\* leaves the try block: the helpers called before it keep their effect on
\* _last_values, and the default snapshot is returned.
get_system_basic(lv, init, src) ==
    IF src.psutil = "memory_raises"
    THEN [lv |-> lv, init |-> TRUE, ret |-> get_default_system_data]
    ELSE LET c == get_context_switches(lv, src.stat_readable, src.ctxt, src.now)
             f == get_page_faults(c.lv, src.vmstat_readable, src.faults[1], src.faults[2],
                                  src.now)
             w == get_swap_activity(f.lv, src.vmstat_readable, src.swap[1], src.swap[2],
                                    src.now)
         IN  IF src.psutil = "swap_raises"
             THEN [lv |-> w.lv, init |-> TRUE, ret |-> get_default_system_data]
             ELSE [lv |-> w.lv, init |-> TRUE,
                   ret |-> [cpu_utilization_total |->
                                IF init THEN psutil_reading("cpu_percent") ELSE 5,
                            memory_utilization |-> psutil_reading("memory_percent"),
                            cpu_cores |-> psutil_reading("cpu_count"),
                            context_switches_per_sec |-> c.ret,
                            minor_faults_per_sec |-> f.ret.minor_faults_per_sec,
                            major_faults_per_sec |-> f.ret.major_faults_per_sec,
                            total_faults_per_sec |-> f.ret.total_faults_per_sec,
                            memory_available_pct |-> psutil_reading("memory_available_pct"),
                            swap_out_per_sec |-> w.ret.pswpout_per_sec,
                            swap_total_mb |-> src.swap_total,
                            swap_used_pct |-> swap_used_pct(src.swap_total)]]

NoSystemBasic == [made |-> 0]

\* The sources are chosen only where the call reads them.
SourcesRead(src) ==
    /\ src.psutil = "memory_raises" =>
          (src.stat_readable /\ src.vmstat_readable /\ src.swap_total = 0)
    /\ src.psutil = "swap_raises" => src.swap_total = 0
    /\ src.psutil = "memory_raises" => src.ctxt = 0

\* A call of get_system_basic at some time, with some state of its sources.
GetSystemBasic ==
    \E psutil \in PsutilOutcomes, swap_total \in SwapTotals,
       stat_readable \in BOOLEAN, vmstat_readable \in BOOLEAN,
       counters \in HostCounters, now \in Times :
        LET src == [psutil |-> psutil, swap_total |-> swap_total,
                    stat_readable |-> stat_readable, ctxt |-> counters[1],
                    vmstat_readable |-> vmstat_readable, faults |-> counters[2],
                    swap |-> counters[3], now |-> now]
            r == get_system_basic(last_values, cpu_sample_initialized, src)
        IN  /\ system_basic.made < MaxHostCalls
            /\ SourcesRead(src)
            /\ last_values' = r.lv
            /\ cpu_sample_initialized' = r.init
            /\ system_basic' = [made |-> system_basic.made + 1, src |-> src,
                                before |-> last_values, ret |-> r.ret]
            /\ UNCHANGED <<outsideRate, obs>>

\* get_system_basic has not been called.
HostIdle ==
    /\ cpu_sample_initialized = FALSE
    /\ system_basic = NoSystemBasic

(***************************************************************************)
(* utils.retry_on_failure                                                  *)
(*                                                                         *)
(* An invocation of the wrapped function either returns a value or raises  *)
(* an exception (an Exception, which is what the wrapper catches).  The    *)
(* i-th invocation's result or exception is tagged with i.                 *)
(***************************************************************************)
MaxRetries == 3                  \* max_retries ranges over 0..MaxRetries

ResultValues   == {"a", "b"}
ExceptionTypes == {"ValueError", "OSError", "TimeoutExpired"}
Outcomes ==
    [kind : {"return"}, value : ResultValues] \cup [kind : {"raise"}, type : ExceptionTypes]

NoException == [type |-> "None", call |-> 0]
NoOutcome   == [kind |-> "none"]

retry_always_sleeps(a, n) == TRUE

\* if attempt < max_retries - 1: warn and sleep; else: log the error
retry_should_sleep(a, n) == a < n - 1

\* try: return func(*args, **kwargs)
RetryCall ==
    /\ rpc = "try"
    /\ attempt < max_retries
    /\ \E o \in Outcomes :
         /\ calls' = Append(calls, o)
         /\ IF o.kind = "return"
            THEN /\ rpc' = "done"
                 /\ rout' = [kind |-> "return", value |-> o.value, call |-> Len(calls) + 1]
                 /\ UNCHANGED last_exception
            ELSE /\ rpc' = "except"
                 /\ last_exception' = [type |-> o.type, call |-> Len(calls) + 1]
                 /\ UNCHANGED rout
    /\ UNCHANGED <<outsideRetry, max_retries, attempt, sleeps>>

\* except Exception as e: ... ; then the next iteration of the for loop
RetryExcept ==
    /\ rpc = "except"
    /\ sleeps' = IF retry_should_sleep(attempt, max_retries)
                 THEN Append(sleeps, attempt + 1) ELSE sleeps
    /\ attempt' = attempt + 1
    /\ rpc' = "try"
    /\ UNCHANGED <<outsideRetry, max_retries, last_exception, rout, calls>>

\* raise last_exception, after the loop; "raise None" is a TypeError
RetryRaise ==
    /\ rpc = "try"
    /\ attempt >= max_retries
    /\ rpc' = "done"
    /\ rout' = IF last_exception = NoException
               THEN [kind |-> "raise", type |-> "TypeError", call |-> 0]
               ELSE [kind |-> "raise", type |-> last_exception.type,
                     call |-> last_exception.call]
    /\ UNCHANGED <<outsideRetry, max_retries, attempt, last_exception, calls, sleeps>>

\* No wrapped call in progress.
RetryIdle ==
    /\ max_retries = 0
    /\ attempt = 0
    /\ last_exception = NoException
    /\ rpc = "idle"
    /\ rout = NoOutcome
    /\ calls = <<>>
    /\ sleeps = <<>>

(***************************************************************************)
(* utils.validate_gpu_data                                                 *)
(*                                                                         *)
(* A reading is a dict; it is modelled by a record over the five required  *)
(* fields whose value is Missing for a key the dict does not have.  A      *)
(* Python value is modelled by its type and, for a number, its amount.     *)
(***************************************************************************)
MinUtilization == 0      \* validation_config['min_utilization']
MaxUtilization == 100    \* validation_config['max_utilization']
MinTemperature == 0      \* validation_config['min_temperature']
MaxTemperature == 100    \* validation_config['max_temperature']
MinPower       == 0      \* validation_config['min_power']
MaxPower       == 1000   \* validation_config['max_power']

Missing == [type |-> "missing", v |-> 0]

required_fields ==
    <<"gpu_id", "sm_utilization", "memory_utilization", "temperature", "power">>

\* The keys of validation_rules, with their ranges.
validation_rules ==
    [sm_utilization     |-> <<MinUtilization, MaxUtilization>>,
     memory_utilization |-> <<MinUtilization, MaxUtilization>>,
     temperature        |-> <<MinTemperature, MaxTemperature>>,
     power              |-> <<MinPower, MaxPower>>]

\* isinstance(value, (int, float)); bool is a subclass of int.
is_number(value) == value.type \in {"int", "float", "bool"}

field_ok_in_range(value, range) ==
    is_number(value) /\ range[1] <= value.v /\ value.v <= range[2]

\* The body of the loop over validation_rules: a value of another type is
\* an error, a number outside the range is only a warning.
field_ok(value, range) == is_number(value)

validate_gpu_data_rejects_zero(enabled, gd) ==
    IF ~enabled THEN TRUE
    ELSE IF \E i \in 1..Len(required_fields) : gd[required_fields[i]] = Missing
         THEN FALSE
         ELSE \A f \in DOMAIN validation_rules :
                 field_ok(gd[f], validation_rules[f]) /\ gd[f].v > 0

\* validate_gpu_data(gpu_data), with config.validation_config's switch.
validate_gpu_data(enabled, gd) ==
    IF ~enabled THEN TRUE
    ELSE IF \E i \in 1..Len(required_fields) : gd[required_fields[i]] = Missing
         THEN FALSE
         ELSE \A f \in DOMAIN validation_rules : field_ok(gd[f], validation_rules[f])

\* The values a field of a reading may hold.
FieldValues ==
    {Missing,
     [type |-> "int", v |-> 50], [type |-> "int", v |-> 150],
     [type |-> "float", v |-> -5], [type |-> "bool", v |-> 1],
     [type |-> "str", v |-> 0], [type |-> "NoneType", v |-> 0]}
GpuIdValues == {Missing, [type |-> "int", v |-> 0], [type |-> "str", v |-> 0]}

NoVerdict == [called |-> FALSE, ret |-> FALSE]

NoGpuData ==
    [gpu_id |-> Missing, sm_utilization |-> Missing, memory_utilization |-> Missing,
     temperature |-> Missing, power |-> Missing]

\* A call of validate_gpu_data on the reading at hand.
ValidateGpuData ==
    /\ ~valid_ret.called
    /\ valid_ret' = [called |-> TRUE,
                     ret |-> validate_gpu_data(enable_validation, gpu_data)]
    /\ UNCHANGED <<outsideValid, enable_validation, gpu_data>>

\* No reading is being validated.
ValidIdle ==
    /\ enable_validation = TRUE
    /\ gpu_data = NoGpuData
    /\ valid_ret = NoVerdict

(***************************************************************************)
(* gpu_analysis_core_optimized: the batch guard and the two reducers       *)
(*                                                                         *)
(* A sample is a dict: has_timestamp and has_gpus tell whether it has the  *)
(* two keys, gpus is sample.get('gpus', []).  A timestamp that is present  *)
(* can be parsed.  gflops_data is a dict, modelled by the sequence of its  *)
(* entries in iteration order; a log name is "gpu<dev>_gpu_burn.log"       *)
(* (kind "single") or "all_gpu_burn.log" (kind "all").  A mean is the      *)
(* exact quotient num / den.                                               *)
(***************************************************************************)
MaxBatch == 2                    \* samples in monitoring_data
MaxLogs  == 2                    \* entries in gflops_data

IntValue(n) == [type |-> "int", v |-> n]

\* A reading of device id with the given sm_utilization.
Reading(id, sm) ==
    [gpu_id |-> IntValue(id), sm_utilization |-> IntValue(sm), memory_utilization |-> IntValue(40),
     temperature |-> IntValue(60 + id), power |-> IntValue(200)]

\* A reading without its temperature key.
NoTemperature(id, sm) == [Reading(id, sm) EXCEPT !.temperature = Missing]

EmptyDict == [k \in {} |-> 0]
NoAnalysis == [fn |-> "none"]

RECURSIVE SumSeq(_)
SumSeq(q) == IF q = <<>> THEN 0 ELSE Head(q) + SumSeq(Tail(q))

RECURSIVE MaxSeq(_)
MaxSeq(q) == IF Len(q) = 1 THEN q[1] ELSE Max(Head(q), MaxSeq(Tail(q)))

RECURSIVE MinSeq(_)
MinSeq(q) == IF Len(q) = 1 THEN q[1] ELSE Min(Head(q), MinSeq(Tail(q)))

\* Series.mean() of a non-empty column
Mean(q) == [num |-> SumSeq(q), den |-> Len(q)]

\* str(n): the decimal digits of n >= 0
RECURSIVE Digits(_)
Digits(n) == IF n < 10 THEN <<n>> ELSE Append(Digits(n \div 10), n % 10)

IsPrefix(a, b) == Len(a) <= Len(b) /\ SubSeq(b, 1, Len(a)) = a

\* f'gpu{gpu_id}' in log_name
name_contains(gpu_id, log_name) ==
    log_name.kind = "single" /\ IsPrefix(Digits(gpu_id), Digits(log_name.dev))

checked_samples_all(md) == md

\* sample = monitoring_data[0]: the samples whose structure is checked
checked_samples(md) == SubSeq(md, 1, 1)

\* GPUDataValidator.validate_monitoring_data, for a list.
validate_monitoring_data(enabled, md) ==
    IF md = <<>> THEN TRUE
    ELSE \A i \in 1..Len(checked_samples(md)) :
            LET sample == checked_samples(md)[i]
            IN  /\ sample.has_timestamp
                /\ sample.has_gpus
                /\ \A j \in 1..Len(sample.gpus) : validate_gpu_data(enabled, sample.gpus[j])

\* The loop that fills gpu_records: a sample without a timestamp raises
\* KeyError and is skipped, a reading that fails validate_gpu_data is skipped.
RECURSIVE gpu_records(_, _)
gpu_records(enabled, md) ==
    IF md = <<>> THEN <<>>
    ELSE LET sample == Head(md)
             rest == gpu_records(enabled, Tail(md))
         IN  IF ~sample.has_timestamp THEN rest
             ELSE SelectSeq(sample.gpus, LAMBDA g : validate_gpu_data(enabled, g)) \o rest

\* df[df['gpu_id'] == gpu_id][column]
Column(records, gpu_id, column) ==
    LET rows == SelectSeq(records, LAMBDA r : r.gpu_id.v = gpu_id)
    IN  [i \in 1..Len(rows) |-> rows[i][column].v]

match_last(S) == CHOOSE i \in S : \A j \in S : j <= i

\* for log_name, gflops_info in gflops_data.items(): if ...: ...; break
match_first(S) == CHOOSE i \in S : \A j \in S : i <= j

gpu_gflops(gd, gpu_id) ==
    LET S == {i \in 1..Len(gd) : name_contains(gpu_id, gd[i].name)}
    IN  IF S = {} THEN 0 ELSE gd[match_first(S)].total_gflops

\* analyze_single_gpu_baseline; the keys f'GPU{gpu_id}' are modelled by gpu_id.
analyze_single_gpu_baseline(enabled, md, gd) ==
    IF md = <<>> THEN EmptyDict
    ELSE IF ~validate_monitoring_data(enabled, md) THEN EmptyDict
    ELSE LET records == gpu_records(enabled, md)
             ids == {records[i].gpu_id.v : i \in 1..Len(records)}
         IN  IF records = <<>> THEN EmptyDict
             ELSE [gpu_id \in ids |->
                     [avg_utilization |-> Mean(Column(records, gpu_id, "sm_utilization")),
                      avg_memory_utilization |->
                          Mean(Column(records, gpu_id, "memory_utilization")),
                      avg_temperature |-> Mean(Column(records, gpu_id, "temperature")),
                      max_temperature |-> MaxSeq(Column(records, gpu_id, "temperature")),
                      avg_power |-> Mean(Column(records, gpu_id, "power")),
                      gflops |-> gpu_gflops(gd, gpu_id),
                      sample_count |-> Len(Column(records, gpu_id, "sm_utilization"))]]

zero_summary ==
    [total_gflops |-> 0, total_gpu_count |-> 0, max_temp |-> 0, temp_delta |-> 0,
     full_stats |-> [total_samples |-> 0, max_temp_observed |-> 0,
                     data_available |-> FALSE, avg_utilization |-> [num |-> 0, den |-> 1]]]

\* "No monitoring data available for stress analysis": return {}
no_data_summary == EmptyDict

\* analyze_all_gpu_stress.  The maximum over the timestamps of the per-
\* timestamp maximum is the maximum of the column, likewise the minimum;
\* the per-timestamp power sums are not modelled.
analyze_all_gpu_stress(enabled, md, gd) ==
    IF md = <<>> THEN no_data_summary
    ELSE IF ~validate_monitoring_data(enabled, md) THEN EmptyDict
    ELSE LET records == gpu_records(enabled, md)
             temps == [i \in 1..Len(records) |-> records[i].temperature.v]
             utils == [i \in 1..Len(records) |-> records[i].sm_utilization.v]
             S == {i \in 1..Len(gd) : gd[i].name.kind = "all"}
         IN  IF records = <<>> THEN EmptyDict
             ELSE [total_gflops |-> IF S = {} THEN 0 ELSE gd[match_first(S)].total_gflops,
                   total_gpu_count |-> IF S = {} THEN 0 ELSE gd[match_first(S)].gpu_count,
                   max_temp |-> MaxSeq(temps),
                   temp_delta |-> MaxSeq(temps) - MinSeq(temps),
                   full_stats |-> [total_samples |-> Len(records),
                                   max_temp_observed |-> MaxSeq(temps),
                                   data_available |-> TRUE,
                                   avg_utilization |-> Mean(utils)]]

\* The sequences over S of length at most n, and those without a repeat.
SeqsUpTo(S, n) == UNION {[1..k -> S] : k \in 0..n}
DistinctSeqsUpTo(S, n) ==
    {q \in SeqsUpTo(S, n) : \A i, j \in 1..Len(q) : i # j => q[i].name # q[j].name}

\* Samples for the batch guard: either key may be absent.
GuardReadings == {Reading(0, 90), NoTemperature(0, 90)}
GuardSamples ==
    {[has_timestamp |-> t, has_gpus |-> TRUE, gpus |-> g] :
        t \in BOOLEAN, g \in SeqsUpTo(GuardReadings, 2)}
    \cup {[has_timestamp |-> t, has_gpus |-> FALSE, gpus |-> <<>>] : t \in BOOLEAN}

\* Samples for the reducers: devices 0 and 1, one reading without a key.
ReducerGpus ==
    {<<>>, <<Reading(0, 90)>>, <<Reading(0, 92)>>, <<Reading(1, 10)>>,
     <<NoTemperature(1, 10)>>, <<Reading(0, 90), Reading(1, 10)>>,
     <<NoTemperature(1, 10), Reading(0, 92)>>}
ReducerSamples ==
    {[has_timestamp |-> TRUE, has_gpus |-> TRUE, gpus |-> g] : g \in ReducerGpus}

\* Entries of gflops_data; _load_gflops_data keeps only total_gflops > 0.
LogEntries ==
    {[name |-> [kind |-> "single", dev |-> 0], total_gflops |-> 500, gpu_count |-> 1],
     [name |-> [kind |-> "single", dev |-> 1], total_gflops |-> 600, gpu_count |-> 1],
     [name |-> [kind |-> "single", dev |-> 10], total_gflops |-> 700, gpu_count |-> 1],
     [name |-> [kind |-> "all", dev |-> 0], total_gflops |-> 1200, gpu_count |-> 2]}

\* A call of GPUDataValidator.validate_monitoring_data on the data at hand.
ValidateMonitoringData ==
    /\ analysis = NoAnalysis
    /\ analysis' = [fn |-> "validate_monitoring_data",
                    ret |-> validate_monitoring_data(enable_validation, monitoring_data)]
    /\ UNCHANGED <<outsideAnalysis, monitoring_data, gflops_data, log_file>>

\* A call of analyze_single_gpu_baseline on the phase data at hand.
AnalyzeBaseline ==
    /\ analysis = NoAnalysis
    /\ analysis' = [fn |-> "analyze_single_gpu_baseline",
                    ret |-> analyze_single_gpu_baseline(enable_validation,
                                                        monitoring_data, gflops_data)]
    /\ UNCHANGED <<outsideAnalysis, monitoring_data, gflops_data, log_file>>

\* A call of analyze_all_gpu_stress on the phase data at hand.
AnalyzeStress ==
    /\ analysis = NoAnalysis
    /\ analysis' = [fn |-> "analyze_all_gpu_stress",
                    ret |-> analyze_all_gpu_stress(enable_validation,
                                                   monitoring_data, gflops_data)]
    /\ UNCHANGED <<outsideAnalysis, monitoring_data, gflops_data, log_file>>

(***************************************************************************)
(* parse_gpu_burn_logs                                                     *)
(*                                                                         *)
(* A log file is readable or not and holds lines.  A line is modelled by   *)
(* what the parser reads from it: whether it is blank, whether it holds    *)
(* the text "Gflop/s", and the integers of its "(<digits> Gflop/s)"        *)
(* matches in order.                                                       *)
(***************************************************************************)
MaxLines == 3                    \* lines of a log file

LogLine(blank, mentions, matches) ==
    [blank |-> blank, mentions |-> mentions, matches |-> matches]

\* A blank line, a progress line, a line with "Gflop/s" outside the pattern,
\* and result lines of one and of two devices.
LogLines ==
    {LogLine(TRUE, FALSE, <<>>), LogLine(FALSE, FALSE, <<>>), LogLine(FALSE, TRUE, <<>>),
     LogLine(FALSE, TRUE, <<500>>), LogLine(FALSE, TRUE, <<700>>),
     LogLine(FALSE, TRUE, <<500, 600>>)}

NoLogFile == [readable |-> FALSE, lines |-> <<>>]
NothingParsed == [total_gflops |-> 0, gpu_count |-> 0]

RECURSIVE Reverse(_)
Reverse(q) == IF q = <<>> THEN <<>> ELSE Append(Reverse(Tail(q)), Head(q))

scan_forward(lines) == lines

\* for line in reversed(lines)
scan_order(lines) == Reverse(lines)

\* The loop over the lines in scan order: the first line that holds
\* "Gflop/s" and at least one match gives the sum and the number of matches.
RECURSIVE first_result(_)
first_result(q) ==
    IF q = <<>> THEN NothingParsed
    ELSE IF Head(q).mentions /\ Len(Head(q).matches) > 0
         THEN [total_gflops |-> SumSeq(Head(q).matches),
               gpu_count |-> Len(Head(q).matches)]
         ELSE first_result(Tail(q))

\* parse_gpu_burn_logs: an unreadable, empty or blank file gives (0, 0), as
\* does a content without a match.
parse_gpu_burn_logs(f) ==
    IF ~f.readable THEN NothingParsed
    ELSE IF \A i \in 1..Len(f.lines) : f.lines[i].blank THEN NothingParsed
    ELSE IF \A i \in 1..Len(f.lines) : f.lines[i].matches = <<>> THEN NothingParsed
    ELSE first_result(scan_order(f.lines))

\* A call of parse_gpu_burn_logs on the log at hand.
ParseGpuBurnLogs ==
    /\ analysis = NoAnalysis
    /\ analysis' = [fn |-> "parse_gpu_burn_logs", ret |-> parse_gpu_burn_logs(log_file)]
    /\ UNCHANGED <<outsideAnalysis, monitoring_data, gflops_data, log_file>>

\* No phase data is loaded.
AnalysisIdle ==
    /\ monitoring_data = <<>>
    /\ gflops_data = <<>>
    /\ analysis = NoAnalysis
    /\ log_file = NoLogFile

(***************************************************************************)
(* GPUDataCollector                                                        *)
(*                                                                         *)
(* The host has the physical devices 0..NumGpus-1.  CUDA_VISIBLE_DEVICES   *)
(* is unset or a list of tokens: a numeric token names a physical index,   *)
(* a UUID token is modelled by the index of the device that bears it: the  *)
(* last device, or NumGpus for a UUID of no installed device.  nvidia-smi  *)
(* answers a query with one line per requested device (all devices when    *)
(* no -i is given); it exits non-zero when a requested device does not     *)
(* exist.  What it reports for device p is a function of p, so that        *)
(* readings can be told apart.                                             *)
(***************************************************************************)
NumGpus    == 3                  \* physical devices of the host
MaxVisible == 2                  \* tokens in CUDA_VISIBLE_DEVICES

ConfigMaxRetries == 3            \* error_handling['max_retries']

PhysIds == 0..(NumGpus - 1)
Tokens  == [kind : {"idx"}, n : PhysIds] \cup [kind : {"uuid"}, n : {NumGpus - 1, NumGpus}]

Unset == [set |-> FALSE, toks |-> <<>>]
CudaVisible == {Unset} \cup {[set |-> TRUE, toks |-> t] : t \in SeqsUpTo(Tokens, MaxVisible)}

ToolSm(p)    == 10 * (p + 1)
ToolMem(p)   == 10 * (p + 1) + 5
ToolTemp(p)  == 40 + p
ToolPower(p) == 100 + p
ToolUsed(p)  == 80 * (p + 1)
ToolTotal(p) == 8000

\* What the environment does to one external query.
QueryOutcomes == {"ok", "timeout", "error"}
DmonNoise ==
    {[kind |-> "none", dev |-> 0], [kind |-> "alljunk", dev |-> 0]}
    \cup [kind : {"junk", "dash"}, dev : PhysIds]
BatchNoise ==
    {[kind |-> "none", dev |-> 0], [kind |-> "alljunk", dev |-> 0]}
    \cup [kind : {"junk"}, dev : PhysIds]

\* The kind of the line the tool prints for device p under the noise.
LineKind(noise, p) ==
    IF noise.kind = "alljunk" THEN "junk"
    ELSE IF noise.kind # "none" /\ noise.dev = p THEN noise.kind
    ELSE "data"

\* cuda_visible and cuda_visible.strip(), with at least one token
restricted(cv) == cv.set /\ cv.toks # <<>>

\* get_gpu_ids_to_monitor
get_gpu_ids_to_monitor(cv, discovery_ok) ==
    IF cv.set
    THEN LET digits == SelectSeq(cv.toks, LAMBDA t : t.kind = "idx")
         IN  [i \in 1..Len(digits) |-> digits[i].n]
    ELSE IF discovery_ok THEN [i \in 1..NumGpus |-> i - 1]
    ELSE <<0>>

\* phys_ids: the devices named after -i
phys_ids(cv, gpu_ids) ==
    IF restricted(cv)
    THEN LET vs == SelectSeq(gpu_ids, LAMBDA v : v < Len(cv.toks))
         IN  [i \in 1..Len(vs) |-> cv.toks[vs[i] + 1]]
    ELSE [i \in 1..Len(gpu_ids) |-> [kind |-> "idx", n |-> gpu_ids[i]]]

\* The devices nvidia-smi reports for a request, and whether it can.
Reported(req) == IF req = <<>> THEN PhysIds ELSE {req[i].n : i \in 1..Len(req)}
RequestValid(req) == \A i \in 1..Len(req) : req[i].n \in PhysIds
Effective(outcome, req) ==
    IF outcome = "ok" /\ ~RequestValid(req) THEN "error" ELSE outcome

enumerate_from_one(pos) == pos

\* for v, tok in enumerate(toks): v of the token at position pos (from 1)
enumerate_index(pos) == pos - 1

\* mapping[...] = v is assigned in list order: the last position wins
last_position(S) == CHOOSE i \in S : \A j \in S : j <= i

\* The physical index a token resolves to, -1 for none (uuid2phys.get).
resolve(tok, listing_ok) ==
    IF tok.kind = "idx" THEN tok.n
    ELSE IF listing_ok /\ tok.n \in PhysIds THEN tok.n
    ELSE -1

\* _build_phys_to_visible_mapping: a later token overwrites an earlier one.
build_phys_to_visible_mapping(cv, listing_ok) ==
    IF ~restricted(cv) THEN EmptyDict
    ELSE LET toks == cv.toks
             phys == {resolve(toks[i], listing_ok) : i \in 1..Len(toks)} \ {-1}
         IN  [phy \in phys |->
                enumerate_index(last_position({i \in 1..Len(toks) :
                                                  resolve(toks[i], listing_ok) = phy}))]

\* util / mapped_batch_data: the per-device results re-keyed by p2v when the
\* restriction is on, keyed by the physical index otherwise.
rekey(cv, p2v, data) ==
    IF restricted(cv)
    THEN LET kept == DOMAIN data \cap DOMAIN p2v
         IN  [v \in {p2v[phy] : phy \in kept} |->
                data[CHOOSE phy \in kept : p2v[phy] = v]]
    ELSE data

SentinelUtil == [sm |-> 0, mem |-> 0]

\* get_dmon_utilization with samples = 1.  env: the outcome of the dmon
\* query, the noise in its output, the outcome of the listing query.
get_dmon_utilization(cv, gpu_ids, env) ==
    LET req == phys_ids(cv, gpu_ids)
        outcome == Effective(env.outcome, req)
        ids == {gpu_ids[i] : i \in 1..Len(gpu_ids)}
        sentinel == [gid \in ids |-> SentinelUtil]
        raises == \E p \in Reported(req) : LineKind(env.noise, p) = "dash"
        acc == [p \in {d \in Reported(req) : LineKind(env.noise, d) = "data"} |->
                   [sm |-> int_div(ToolSm(p), 1), mem |-> int_div(ToolMem(p), 1)]]
        p2v == build_phys_to_visible_mapping(cv, env.listing_ok)
        mapped == outcome = "ok" /\ ~raises /\ restricted(cv)
    IN  [ret      |-> IF outcome # "ok" \/ raises THEN sentinel ELSE rekey(cv, p2v, acc),
         calls    |-> <<outcome>>,
         delays   |-> 0,
         request  |-> req,
         noise    |-> env.noise,
         raised   |-> outcome = "ok" /\ raises,
         listings |-> IF mapped THEN <<env.listing_ok>> ELSE <<>>,
         p2v      |-> IF mapped THEN p2v ELSE EmptyDict]

\* _get_default_gpu_data
get_default_gpu_data ==
    [temperature |-> 0, power |-> 0, fb_mem_used_mib |-> 0, fb_mem_total_mib |-> 1,
     fb_mem_util_pct |-> 0]

fill_nothing(batch_data, ids) == batch_data

\* for gpu_id in gpu_ids: if gpu_id not in batch_data: ... default
fill_defaults(batch_data, ids) ==
    [gid \in DOMAIN batch_data \cup ids |->
        IF gid \in DOMAIN batch_data THEN batch_data[gid] ELSE get_default_gpu_data]

\* get_batch_gpu_data.  The amounts are such that used / total * 100 is whole.
get_batch_gpu_data(cv, gpu_ids, env) ==
    LET req == phys_ids(cv, gpu_ids)
        outcome == Effective(env.outcome, req)
        ids == {gpu_ids[i] : i \in 1..Len(gpu_ids)}
        defaults == [gid \in ids |-> get_default_gpu_data]
        batch_data ==
            [p \in {d \in Reported(req) : LineKind(env.noise, d) = "data"} |->
                [temperature |-> ToolTemp(p), power |-> ToolPower(p),
                 fb_mem_used_mib |-> ToolUsed(p), fb_mem_total_mib |-> ToolTotal(p),
                 fb_mem_util_pct |-> int_div(ToolUsed(p) * 100, Max(ToolTotal(p), 1))]]
        p2v == build_phys_to_visible_mapping(cv, env.listing_ok)
        mapped == outcome = "ok" /\ restricted(cv)
    IN  [ret      |-> IF outcome # "ok" THEN defaults
                      ELSE fill_defaults(rekey(cv, p2v, batch_data), ids),
         calls    |-> <<outcome>>,
         delays   |-> 0,
         request  |-> req,
         noise    |-> env.noise,
         raised   |-> FALSE,
         listings |-> IF mapped THEN <<env.listing_ok>> ELSE <<>>,
         p2v      |-> IF mapped THEN p2v ELSE EmptyDict]

\* gpu_info of collect_gpu_data: the two results merged, with the .get defaults.
gpu_info(gpu_id, dmon_util, batch_data) ==
    LET u == IF gpu_id \in DOMAIN dmon_util THEN dmon_util[gpu_id] ELSE SentinelUtil
        b == IF gpu_id \in DOMAIN batch_data THEN batch_data[gpu_id]
             ELSE get_default_gpu_data
    IN  [gpu_id |-> gpu_id, sm_utilization |-> u.sm, memory_utilization |-> u.mem,
         temperature |-> b.temperature, power |-> b.power,
         fb_mem_used_mib |-> b.fb_mem_used_mib, fb_mem_total_mib |-> b.fb_mem_total_mib,
         fb_mem_util_pct |-> b.fb_mem_util_pct]

\* The reading as validate_gpu_data sees it: every value is a number.
typed(info) ==
    [gpu_id |-> IntValue(info.gpu_id), sm_utilization |-> IntValue(info.sm_utilization),
     memory_utilization |-> IntValue(info.memory_utilization),
     temperature |-> IntValue(info.temperature), power |-> IntValue(info.power)]

NoQueries == [made |-> FALSE]
NoSample  == [collected |-> FALSE, gpus |-> <<>>]

collect_gpu_data_no_early_return(cv, enabled, discovery_ok, d_env, b_env) ==
    LET gpu_ids == get_gpu_ids_to_monitor(cv, discovery_ok)
        dmon == get_dmon_utilization(cv, gpu_ids, d_env)
        batch == get_batch_gpu_data(cv, gpu_ids, b_env)
        infos == [i \in 1..Len(gpu_ids) |-> gpu_info(gpu_ids[i], dmon.ret, batch.ret)]
        discovery == IF cv.set THEN <<>> ELSE <<discovery_ok>>
    IN  [sample  |-> [collected |-> TRUE,
                      gpus |-> SelectSeq(infos, LAMBDA g :
                                   validate_gpu_data(enabled, typed(g)))],
         queries |-> [made |-> TRUE, gpu_ids |-> gpu_ids, discovery |-> discovery,
                      asked |-> TRUE, dmon |-> dmon, batch |-> batch]]

\* collect_gpu_data: the sample it returns and the queries it makes.
collect_gpu_data(cv, enabled, discovery_ok, d_env, b_env) ==
    LET gpu_ids == get_gpu_ids_to_monitor(cv, discovery_ok)
        dmon == get_dmon_utilization(cv, gpu_ids, d_env)
        batch == get_batch_gpu_data(cv, gpu_ids, b_env)
        infos == [i \in 1..Len(gpu_ids) |-> gpu_info(gpu_ids[i], dmon.ret, batch.ret)]
        discovery == IF cv.set THEN <<>> ELSE <<discovery_ok>>
    IN  IF gpu_ids = <<>>
        THEN [sample  |-> [collected |-> TRUE, gpus |-> <<>>],
              queries |-> [made |-> TRUE, gpu_ids |-> gpu_ids, discovery |-> discovery,
                           asked |-> FALSE]]
        ELSE [sample  |-> [collected |-> TRUE,
                           gpus |-> SelectSeq(infos, LAMBDA g :
                                        validate_gpu_data(enabled, typed(g)))],
              queries |-> [made |-> TRUE, gpu_ids |-> gpu_ids, discovery |-> discovery,
                           asked |-> TRUE, dmon |-> dmon, batch |-> batch]]

\* The environment's choices are taken only where a query is made and its
\* answer is read.
ReadChoices(cv, discovery_ok, d_env, b_env) ==
    /\ cv.set => discovery_ok
    /\ d_env.outcome # "ok" => (d_env.noise.kind = "none" /\ d_env.listing_ok)
    /\ b_env.outcome # "ok" => (b_env.noise.kind = "none" /\ b_env.listing_ok)
    /\ ~restricted(cv) => (d_env.listing_ok /\ b_env.listing_ok)

\* collect_gpu_data: one tick of the collector.
CollectGpuData ==
    \E discovery_ok \in BOOLEAN,
       d_outcome \in QueryOutcomes, d_noise \in DmonNoise, d_listing \in BOOLEAN,
       b_outcome \in QueryOutcomes, b_noise \in BatchNoise, b_listing \in BOOLEAN :
        LET d_env == [outcome |-> d_outcome, noise |-> d_noise, listing_ok |-> d_listing]
            b_env == [outcome |-> b_outcome, noise |-> b_noise, listing_ok |-> b_listing]
            tick == collect_gpu_data(cuda_visible, enable_validation, discovery_ok,
                                     d_env, b_env)
        IN  /\ ~queries.made
            /\ ReadChoices(cuda_visible, discovery_ok, d_env, b_env)
            /\ gpu_sample' = tick.sample
            /\ queries' = tick.queries
            /\ UNCHANGED <<outsideQuery, validVars, cuda_visible, run>>

(***************************************************************************)
(* A run of main: start_monitoring calls collect_gpu_data at every tick    *)
(* until a signal ends the loop.  The history counts the ticks, the        *)
(* discovery queries (nvidia-smi -L) and the listing queries               *)
(* (--query-gpu=index,uuid) made so far.                                   *)
(***************************************************************************)
MaxRunTicks   == 3     \* ticks of one run
MaxRunVisible == 1     \* entries of CUDA_VISIBLE_DEVICES in a run

NoRun == [state |-> "none"]
RunStarted == [state |-> "running", ticks |-> 0, pushes |-> 0, discoveries |-> 0, listings |-> 0,
               discovery_failed |-> FALSE, exit |-> -1]

RunVisible == {Unset} \cup {[set |-> TRUE, toks |-> t] : t \in SeqsUpTo(Tokens, MaxRunVisible)}

\* The listing queries of one tick: one per call of
\* _build_phys_to_visible_mapping.
tick_listings(q) == IF q.asked THEN Len(q.dmon.listings) + Len(q.batch.listings) ELSE 0

\* One iteration of the loop of start_monitoring: collect_gpu_data with a
\* well-formed tool output, and the push of the sample it returned.
RunTick ==
    \E discovery_ok \in BOOLEAN,
       d_outcome \in QueryOutcomes, d_listing \in BOOLEAN,
       b_outcome \in QueryOutcomes, b_listing \in BOOLEAN :
        LET d_env == [outcome |-> d_outcome, noise |-> [kind |-> "none"],
                      listing_ok |-> d_listing]
            b_env == [outcome |-> b_outcome, noise |-> [kind |-> "none"],
                      listing_ok |-> b_listing]
            tick == collect_gpu_data(cuda_visible, enable_validation, discovery_ok,
                                     d_env, b_env)
        IN  /\ run.state = "running"
            /\ run.ticks < MaxRunTicks
            /\ ReadChoices(cuda_visible, discovery_ok, d_env, b_env)
            /\ gpu_sample' = tick.sample
            /\ queries' = tick.queries
            /\ run' = [run EXCEPT !.ticks = @ + 1,
                                  !.pushes = @ + 1,
                                  !.discoveries = @ + Len(tick.queries.discovery),
                                  !.listings = @ + tick_listings(tick.queries),
                                  !.discovery_failed =
                                      @ \/ tick.queries.discovery = <<FALSE>>]
            /\ UNCHANGED <<outsideQuery, validVars, cuda_visible>>

\* A signal ends the loop; start_monitoring returns and main returns 0.
RunStop ==
    /\ run.state = "running"
    /\ run' = [run EXCEPT !.state = "done", !.exit = 0]
    /\ UNCHANGED <<outsideQuery, validVars, cuda_visible, gpu_sample, queries>>

\* No tick has been made; the variable is not set.
QueryIdle ==
    /\ cuda_visible = Unset
    /\ gpu_sample = NoSample
    /\ queries = NoQueries
    /\ run = NoRun

\* The monitor is constructed and not started.
MonitorIdle ==
    /\ data_buffer = <<>>
    /\ total_samples = 0
    /\ max_samples = MonitorMaxSamples
    /\ save_interval = 1
    /\ returned = <<>>
    /\ pc = "idle"
    /\ running = FALSE
    /\ interrupted = FALSE
    /\ iteration = 0
    /\ interval = 1
    /\ snapshot = 0
    /\ file = NoFile
    /\ exc = "none"
    /\ pushed = <<>>
    /\ saves = <<>>
    /\ signals = 0
    /\ firstSignal = NoSignal

\* No rate metric has been read.
RateIdle ==
    /\ last_values = NoLastValues
    /\ obs = NoObs
    /\ HostIdle

\* Everything outside the monitor and its rate tracker is idle.
OutsideIdle == HostIdle /\ RetryIdle /\ ValidIdle /\ AnalysisIdle /\ QueryIdle

(***************************************************************************)
(* Specifications                                                          *)
(***************************************************************************)

\* OptimizedGPUMonitor.__init__ for any --save-interval and --interval.
Init ==
    /\ data_buffer = <<>>
    /\ total_samples = 0
    /\ max_samples = MonitorMaxSamples
    /\ save_interval \in SaveIntervals
    /\ returned = <<>>
    /\ pc = "idle"
    /\ running = FALSE
    /\ interrupted = FALSE
    /\ iteration = 0
    /\ interval \in Intervals
    /\ snapshot = 0
    /\ file = NoFile
    /\ exc = "none"
    /\ pushed = <<>>
    /\ saves = <<>>
    /\ signals = 0
    /\ firstSignal = NoSignal
    /\ last_values = NoLastValues
    /\ obs = NoObs
    /\ OutsideIdle

LoopStep ==
    \/ StartMonitoring
    \/ WhileCheck
    \/ Collect
    \/ AddSample
    \/ PeriodicSave
    \/ Sleep
    \/ Finally

Next ==
    \/ LoopStep
    \/ signal_handler

\* The collection loop and its signal handler.
Spec == Init /\ [][Next]_vars

\* The same, with every step of the loop eventually taken: the queries and
\* the sleep of a tick terminate.
FairSpec == Spec /\ WF_vars(LoopStep)

RestartNext ==
    \/ Next
    \/ StartMonitoringAgain

\* The monitor with up to MaxRuns calls of start_monitoring.
RestartSpec == Init /\ [][RestartNext]_vars

\* StreamingDataManager.__init__ for any max_samples >= 1, save_interval >= 0.
BufInit ==
    /\ data_buffer = <<>>
    /\ total_samples = 0
    /\ max_samples \in 1..MaxCapacity
    /\ save_interval \in SaveIntervals
    /\ returned = <<>>
    /\ pc = "idle"
    /\ running = FALSE
    /\ interrupted = FALSE
    /\ iteration = 0
    /\ interval = 1
    /\ snapshot = 0
    /\ file = NoFile
    /\ exc = "none"
    /\ pushed = <<>>
    /\ saves = <<>>
    /\ signals = 0
    /\ firstSignal = NoSignal
    /\ last_values = NoLastValues
    /\ obs = NoObs
    /\ OutsideIdle

BufNext ==
    \/ BufAddSample
    \/ BufSaveBuffer
    \/ BufGetFinalData
    \/ BufChangeReturned

\* The streaming buffer alone, driven by direct calls.
BufferSpec == BufInit /\ [][BufNext]_vars

\* SystemMonitor.__init__ (inside a monitor that has not started).
RateInit ==
    /\ data_buffer = <<>>
    /\ total_samples = 0
    /\ max_samples = MonitorMaxSamples
    /\ save_interval = 1
    /\ returned = <<>>
    /\ pc = "idle"
    /\ running = FALSE
    /\ interrupted = FALSE
    /\ iteration = 0
    /\ interval = 1
    /\ snapshot = 0
    /\ file = NoFile
    /\ exc = "none"
    /\ pushed = <<>>
    /\ saves = <<>>
    /\ signals = 0
    /\ firstSignal = NoSignal
    /\ last_values = NoLastValues
    /\ obs = NoObs
    /\ OutsideIdle

RateNext ==
    \/ ObserveContextSwitches
    \/ ObservePageFaults
    \/ ObserveSwapActivity

\* SystemMonitor's rate metrics, called at any times with any counters.
RateSpec == RateInit /\ [][RateNext]_vars

\* SystemMonitor.__init__, then calls of get_system_basic.
HostInit ==
    /\ MonitorIdle
    /\ RateIdle
    /\ RetryIdle
    /\ ValidIdle
    /\ AnalysisIdle
    /\ QueryIdle

HostNext == GetSystemBasic

HostSpec == HostInit /\ [][HostNext]_vars

\* A call of a function wrapped by retry_on_failure(max_retries = n).
RetryInit ==
    /\ MonitorIdle
    /\ RateIdle
    /\ max_retries \in 0..MaxRetries
    /\ attempt = 0
    /\ last_exception = NoException
    /\ rpc = "try"
    /\ rout = NoOutcome
    /\ calls = <<>>
    /\ sleeps = <<>>
    /\ ValidIdle
    /\ AnalysisIdle
    /\ QueryIdle

RetryNext ==
    \/ RetryCall
    \/ RetryExcept
    \/ RetryRaise

RetrySpec == RetryInit /\ [][RetryNext]_vars

\* validate_gpu_data called on any reading, validation switched on or off.
ValidInit ==
    /\ MonitorIdle
    /\ RateIdle
    /\ RetryIdle
    /\ enable_validation \in BOOLEAN
    /\ gpu_data \in [gpu_id : GpuIdValues, sm_utilization : FieldValues,
                      memory_utilization : FieldValues, temperature : FieldValues,
                      power : FieldValues]
    /\ valid_ret = NoVerdict
    /\ AnalysisIdle
    /\ QueryIdle

ValidNext == ValidateGpuData

ValidSpec == ValidInit /\ [][ValidNext]_vars

\* validate_monitoring_data called on any batch of up to MaxBatch samples.
GuardInit ==
    /\ MonitorIdle
    /\ RateIdle
    /\ RetryIdle
    /\ ValidIdle
    /\ monitoring_data \in SeqsUpTo(GuardSamples, MaxBatch)
    /\ gflops_data = <<>>
    /\ analysis = NoAnalysis
    /\ log_file = NoLogFile
    /\ QueryIdle

GuardNext == ValidateMonitoringData

GuardSpec == GuardInit /\ [][GuardNext]_vars

\* The reducers called on any phase data within the bounds.
ReducerInit ==
    /\ MonitorIdle
    /\ RateIdle
    /\ RetryIdle
    /\ ValidIdle
    /\ monitoring_data \in SeqsUpTo(ReducerSamples, MaxBatch)
    /\ gflops_data \in DistinctSeqsUpTo(LogEntries, MaxLogs)
    /\ analysis = NoAnalysis
    /\ log_file = NoLogFile
    /\ QueryIdle

ReducerNext ==
    \/ AnalyzeBaseline
    \/ AnalyzeStress

ReducerSpec == ReducerInit /\ [][ReducerNext]_vars

\* parse_gpu_burn_logs called on any log of up to MaxLines lines.
ParserInit ==
    /\ MonitorIdle
    /\ RateIdle
    /\ RetryIdle
    /\ ValidIdle
    /\ QueryIdle
    /\ monitoring_data = <<>>
    /\ gflops_data = <<>>
    /\ analysis = NoAnalysis
    /\ log_file \in [readable : BOOLEAN, lines : SeqsUpTo(LogLines, MaxLines)]

ParserNext == ParseGpuBurnLogs

ParserSpec == ParserInit /\ [][ParserNext]_vars

\* A GPUDataCollector under any value of CUDA_VISIBLE_DEVICES.
QueryInit ==
    /\ MonitorIdle
    /\ RateIdle
    /\ RetryIdle
    /\ ValidIdle
    /\ AnalysisIdle
    /\ cuda_visible \in CudaVisible
    /\ gpu_sample = NoSample
    /\ queries = NoQueries
    /\ run = NoRun

QueryNext == CollectGpuData

QuerySpec == QueryInit /\ [][QueryNext]_vars

\* A run of main under a value of CUDA_VISIBLE_DEVICES, with validation on
\* or off.
RunInit ==
    /\ MonitorIdle
    /\ RateIdle
    /\ RetryIdle
    /\ AnalysisIdle
    /\ enable_validation \in BOOLEAN
    /\ gpu_data = NoGpuData
    /\ valid_ret = NoVerdict
    /\ cuda_visible \in RunVisible
    /\ gpu_sample = NoSample
    /\ queries = NoQueries
    /\ run = RunStarted

RunNext == RunTick \/ RunStop

RunSpec == RunInit /\ [][RunNext]_vars

(***************************************************************************)
(* Properties of the collection loop                                       *)
(***************************************************************************)

FinalSaves == {i \in DOMAIN saves : saves[i].is_final}

\* Every sample that some successful write put into the output file.
Persisted == UNION {{saves[i].samples[j] : j \in DOMAIN saves[i].samples} :
                    i \in {k \in DOMAIN saves : saves[k].ok}}

AllWritesOk == \A i \in DOMAIN saves : saves[i].ok

\* C1: when a run ended by an interrupt returns (and no write failed), every
\* sample pushed to the buffer during the run has been written to storage.
C1_NoSampleLost ==
    (pc = "done" /\ interrupted /\ exc = "none" /\ AllWritesOk)
        => \A i \in DOMAIN pushed : pushed[i] \in Persisted

\* C4: in a run that received one or more signals, exactly one save with
\* is_final = true was made, it is the last write, and running is false.
C4_OneFinalSave ==
    (pc = "done" /\ signals >= 1)
        => /\ Cardinality(FinalSaves) = 1
           /\ saves[Len(saves)].is_final
           /\ ~running

\* C4 witness: a run with two signals and a periodic save before the final one.
C4_Witness ==
    /\ pc = "done"
    /\ signals >= 2
    /\ Len(saves) >= 2
    /\ Cardinality(FinalSaves) = 1

\* C5: whenever start_monitoring has returned, by the flags or by an
\* exception that escaped a tick, a final save has been attempted.
C5_FinalSaveAttempted ==
    pc = "done" => FinalSaves # {}

\* C5 witness: the run ended by an exception, with no signal, and saved.
C5_Witness ==
    /\ pc = "done"
    /\ exc = "ValueError"
    /\ signals = 0
    /\ FinalSaves # {}

\* C6: an exception raised in a tick does not end the loop: the loop is left
\* only with the interrupt flag set or running cleared.
C6_LoopEndsOnlyOnFlags ==
    pc = "finally" => (interrupted \/ ~running)

\* C7: once a signal has set the flags, the tick in flight completes and its
\* sample is pushed, and no further tick starts: at the return, the iteration
\* counter is the one the signal found and that tick's sample is the last
\* one pushed (no exception having ended the tick).
C7_InFlightTickCompletes ==
    (pc = "done" /\ signals >= 1 /\ exc = "none")
        => /\ iteration = firstSignal.iter
           /\ Len(pushed) = iteration
           /\ (iteration > 0 => pushed[iteration] = iteration)

\* C7 witness: the first signal arrived in the middle of the second tick,
\* before its sample was pushed, and the run returned with that sample pushed.
C7_Witness ==
    /\ pc = "done"
    /\ exc = "none"
    /\ firstSignal = [iter |-> 2, pc |-> "collect"]
    /\ Len(pushed) = 2

\* C8: a signal delivered to the running loop leads to Stopped: the call
\* returns with running = false (every step of a tick terminating).
C8_InterruptLeadsToStopped ==
    (signals >= 1) ~> (pc = "done" /\ ~running)

\* C8 witness: a signal arrived during the sleep and the loop has stopped.
C8_Witness ==
    /\ pc = "done"
    /\ ~running
    /\ firstSignal.pc = "sleep"

\* C9: the total_samples of every write is the cumulative number of samples
\* collected so far, not the number of samples in the file.
C9_TotalIsCumulative ==
    \A i \in DOMAIN saves :
        saves[i].ok => saves[i].total_samples = saves[i].collected

\* C25 (as stated): the sample list of a periodic write made at iteration k
\* holds the sample collected at iteration k.
C25_PeriodicSnapshotHoldsLatest ==
    \A i \in DOMAIN saves :
        (~saves[i].is_final /\ saves[i].ok) =>
            \E j \in DOMAIN saves[i].samples : saves[i].samples[j] = saves[i].collected

\* C26: the samples pushed during a run carry the iterations 1, 2, 3, ... in
\* push order, and the buffer's cumulative total is the iteration of the
\* sample pushed last.
C26_IterationsCountPushes ==
    /\ \A i \in DOMAIN pushed : pushed[i] = i
    /\ total_samples = Len(pushed)

\* C26 witness: three ticks have pushed the samples tagged 1, 2, 3.
C26_Witness ==
    /\ pushed = <<1, 2, 3>>
    /\ total_samples = 3
    /\ iteration = 3

(***************************************************************************)
(* Properties of the streaming buffer                                      *)
(***************************************************************************)

\* C2: for max_samples >= 1 and save_interval >= 1, the buffer holds at most
\* max_samples records in every reachable state.
C2_BufferBounded ==
    (max_samples >= 1 /\ save_interval >= 1) => Len(data_buffer) <= max_samples

\* C2 witness: the push that filled the buffer flushed it, at a count that is
\* no multiple of save_interval.
C2_Witness ==
    /\ save_interval >= 1
    /\ total_samples = max_samples
    /\ total_samples % save_interval # 0
    /\ data_buffer = <<>>
    /\ Len(pushed) = max_samples

\* C3: total_samples is the number of add_sample calls made so far, whatever
\* flushes happened.
C3_TotalCountsPushes ==
    total_samples = Len(pushed)

\* C3 witness: several pushes, a flush among them, the buffer empty again.
C3_Witness ==
    /\ Len(pushed) >= 3
    /\ data_buffer = <<>>
    /\ total_samples = Len(pushed)

\* C23: a call of add_sample empties the buffer exactly when, after the
\* append, the buffer length has reached max_samples or total_samples is a
\* multiple of save_interval; otherwise the buffer is the old one with the
\* pushed sample appended.
C23_FlushExactlyWhenDue ==
    [][Len(pushed') = Len(pushed) + 1 =>
          LET b1  == Append(data_buffer, pushed'[Len(pushed')])
              due == \/ Len(b1) >= max_samples
                     \/ (save_interval # 0 /\ total_samples' % save_interval = 0)
          IN  data_buffer' = IF due THEN <<>> ELSE b1]_vars

\* C23 witness: with max_samples 3 and save_interval 2 the second push
\* flushed on the count alone, and the third push grew the buffer by one.
C23_Witness ==
    /\ max_samples = 3
    /\ save_interval = 2
    /\ pushed = <<1, 2, 3>>
    /\ total_samples = 3
    /\ data_buffer = <<3>>

IsSuffix(q, of) == Len(q) <= Len(of) /\ q = SubSeq(of, Len(of) - Len(q) + 1, Len(of))

\* C24: get_final_data returns the buffered samples in push order, the most
\* recent run of the pushed samples, and leaves the buffer and total_samples
\* as they are; a change of the returned list leaves the buffer as it is.
C24_DrainCopiesBuffer ==
    [][returned' # returned =>
          /\ data_buffer' = data_buffer
          /\ total_samples' = total_samples
          /\ ~HasForeign(returned') =>
                (returned' = data_buffer /\ IsSuffix(returned', pushed))]_vars

\* C24 witness: after a flush and two more pushes the two buffered samples
\* were returned, and the caller changed the list it got; the buffer still
\* holds the two samples.
C24_Witness ==
    /\ pushed = <<1, 2, 3>>
    /\ data_buffer = <<2, 3>>
    /\ returned = <<2, 3, Foreign>>
    /\ total_samples = 3

(***************************************************************************)
(* Properties of the rate tracker                                          *)
(***************************************************************************)

\* ret is diff / dt cut to a whole number and kept within 0..ceiling.
IsClampedRate(ret, diff, dt, ceiling) ==
    IF diff < 0 THEN ret = 0
    ELSE IF diff >= ceiling * dt THEN ret = ceiling
    ELSE ret * dt <= diff /\ diff < (ret + 1) * dt

\* ret is diff / dt (to within the rounding to a whole number), capped at the
\* ceiling and with no other bound.
IsCappedRate(ret, diff, dt, ceiling) ==
    IF diff >= ceiling * dt THEN ret = ceiling
    ELSE ret * dt - dt < diff /\ diff < ret * dt + dt

CtxtStored ==
    /\ last_values.last_ctxt_value = obs.counter
    /\ last_values.last_ctxt_time = obs.now

FaultsStored ==
    /\ last_values.minor_faults = obs.counter[1] - obs.counter[2]
    /\ last_values.major_faults = obs.counter[2]
    /\ last_values.last_pgfault_time = obs.now

WithinCeiling(rate, ceiling) == 0 <= rate /\ rate <= ceiling

\* The largest of the ceilings the tracker is configured with.
LargestCeiling == CtxtCeiling

\* C27 (as stated): every rate the tracker returns lies between 0 and the
\* ceiling of its metric; the swap-in and swap-out rates, for which the code
\* names no ceiling, are held against the largest ceiling of all.
C27_EveryRateWithinCeiling ==
    /\ obs.metric = "ctxt" => WithinCeiling(obs.ret, CtxtCeiling)
    /\ obs.metric = "pgfault" =>
          /\ WithinCeiling(obs.ret.minor_faults_per_sec, MinorFaultsCeiling)
          /\ WithinCeiling(obs.ret.major_faults_per_sec, MajorFaultsCeiling)
          /\ WithinCeiling(obs.ret.total_faults_per_sec, TotalFaultsCeiling)
    /\ obs.metric = "swap" =>
          /\ WithinCeiling(obs.ret.pswpin_per_sec, LargestCeiling)
          /\ WithinCeiling(obs.ret.pswpout_per_sec, LargestCeiling)

(***************************************************************************)
(* Properties of the rate tracker under a clock that does not advance      *)
(***************************************************************************)

\* The time stored for the metric of the last observation, before the call.
StoredTime ==
    CASE obs.metric = "ctxt"    -> obs.before.last_ctxt_time
      [] obs.metric = "pgfault" -> obs.before.last_pgfault_time
      [] obs.metric = "swap"    -> obs.before.last_swap_time
      [] OTHER                  -> 0

\* The last observation had a stored predecessor and elapsed time <= 0.
ClockAnomaly ==
    /\ obs.metric # "none"
    /\ obs.readable
    /\ StoredTime > 0
    /\ obs.now - StoredTime <= 0

ZeroRate ==
    CASE obs.metric = "ctxt"    -> obs.ret = 0
      [] obs.metric = "pgfault" -> obs.ret = ZeroFaults
      [] obs.metric = "swap"    -> obs.ret = ZeroSwap
      [] OTHER                  -> TRUE

\* C11: an observation with elapsed time <= 0 since the stored observation
\* returns 0 and leaves the stored last value and last timestamp of its
\* metric as they were.
C11_ClockAnomalyKeepsState ==
    ClockAnomaly => (ZeroRate /\ last_values = obs.before)

(***************************************************************************)
(* Properties of retry_on_failure                                          *)
(***************************************************************************)

\* The invocations that raised, as positions in calls.
Raised == {i \in 1..Len(calls) : calls[i].kind = "raise"}

\* C14: with max_retries = n >= 1 the wrapped function is invoked until it
\* first succeeds and at most n times; the first successful result is
\* returned and nothing is invoked after it; when all n invocations raise,
\* the exception of the n-th is raised; the delay runs after each failed
\* attempt but the n-th, so only between attempts.
C14_RetryUntilSuccess ==
    max_retries >= 1 =>
        /\ Len(calls) <= max_retries
        /\ \A i \in 1..Len(calls) - 1 : calls[i].kind = "raise"
        /\ \A i \in 1..Len(sleeps) : sleeps[i] = i /\ sleeps[i] \in Raised
        /\ Len(sleeps) <= max_retries - 1
        /\ rpc = "done" =>
              /\ Len(calls) >= 1
              /\ LET last == calls[Len(calls)]
                 IN  IF last.kind = "return"
                     THEN /\ rout = [kind |-> "return", value |-> last.value,
                                     call |-> Len(calls)]
                          /\ Len(sleeps) = Len(calls) - 1
                     ELSE /\ Len(calls) = max_retries
                          /\ rout = [kind |-> "raise", type |-> last.type,
                                     call |-> max_retries]
                          /\ Len(sleeps) = max_retries - 1

\* C14 witness: three attempts allowed, all three raise, the third
\* exception reaches the caller after two delays.
C14_Witness ==
    /\ max_retries = 3
    /\ rpc = "done"
    /\ Len(calls) = 3
    /\ rout.kind = "raise"
    /\ rout.call = 3
    /\ sleeps = <<1, 2>>

(***************************************************************************)
(* Properties of validate_gpu_data                                         *)
(***************************************************************************)

MeasuredFields == {"sm_utilization", "memory_utilization", "temperature", "power"}

AllFieldsPresent ==
    gpu_data.gpu_id # Missing /\ \A f \in MeasuredFields : gpu_data[f] # Missing

\* A number in Python's sense: an int (bool included) or a float.
MeasuredNumeric == \A f \in MeasuredFields : gpu_data[f].type \in {"int", "float", "bool"}

\* C17: with validation enabled validate_gpu_data returns true exactly
\* when the five required fields are present and the four measured ones are
\* numbers, whatever their amounts and whatever the type of gpu_id.
C17_ValidIffPresentAndNumeric ==
    (enable_validation /\ valid_ret.called) =>
        (valid_ret.ret = (AllFieldsPresent /\ MeasuredNumeric))

\* C17 witness: a reading with sm_utilization = 150, above max_utilization,
\* and every other field a number in range has been accepted.
C17_Witness ==
    /\ enable_validation
    /\ valid_ret.called
    /\ valid_ret.ret
    /\ gpu_data.sm_utilization = [type |-> "int", v |-> 150]
    /\ gpu_data.sm_utilization.v > MaxUtilization
    /\ gpu_data.memory_utilization = [type |-> "int", v |-> 50]
    /\ gpu_data.temperature = [type |-> "int", v |-> 50]
    /\ gpu_data.power = [type |-> "int", v |-> 50]

(***************************************************************************)
(* Properties of the batch guard                                           *)
(***************************************************************************)

\* The first record has both keys and each of its readings is valid.
FirstRecordValid ==
    /\ monitoring_data[1].has_timestamp
    /\ monitoring_data[1].has_gpus
    /\ \A j \in 1..Len(monitoring_data[1].gpus) :
          validate_gpu_data(enable_validation, monitoring_data[1].gpus[j])

\* C18: validate_monitoring_data accepts an empty batch and accepts a
\* non-empty batch exactly when its first record has the timestamp and
\* gpus fields and each reading of that record passes validate_gpu_data;
\* the later records have no say.
C18_FirstRecordDecides ==
    analysis.fn = "validate_monitoring_data" =>
        (analysis.ret = (monitoring_data = <<>> \/ FirstRecordValid))

\* C18 witness: a batch whose first record is valid and whose second record
\* lacks its timestamp and holds an invalid reading has been accepted.
C18_Witness ==
    /\ analysis.fn = "validate_monitoring_data"
    /\ analysis.ret
    /\ Len(monitoring_data) = 2
    /\ monitoring_data[1].gpus = <<Reading(0, 90), Reading(0, 90)>>
    /\ ~monitoring_data[2].has_timestamp
    /\ monitoring_data[2].gpus = <<NoTemperature(0, 90)>>

(***************************************************************************)
(* Properties of the reducers                                              *)
(***************************************************************************)

\* The positions <<i, j>> of the valid readings of the phase data.
ValidReadings ==
    {p \in (1..Len(monitoring_data)) \X (1..2) :
        /\ p[2] <= Len(monitoring_data[p[1]].gpus)
        /\ validate_gpu_data(enable_validation, monitoring_data[p[1]].gpus[p[2]])}

ReadingAt(p) == monitoring_data[p[1]].gpus[p[2]]

\* The device ids that occur in the valid readings, and a device's readings.
ValidDeviceIds == {ReadingAt(p).gpu_id.v : p \in ValidReadings}
ReadingsOf(d) == {p \in ValidReadings : ReadingAt(p).gpu_id.v = d}

RECURSIVE SumSm(_)
SumSm(P) ==
    IF P = {} THEN 0
    ELSE LET p == CHOOSE x \in P : TRUE
         IN  ReadingAt(p).sm_utilization.v + SumSm(P \ {p})

\* The throughput of the first log entry whose name contains gpu<d>, or 0.
FirstMatchingThroughput(d) ==
    IF \A i \in 1..Len(gflops_data) : ~name_contains(d, gflops_data[i].name) THEN 0
    ELSE LET i == CHOOSE k \in 1..Len(gflops_data) :
                      /\ name_contains(d, gflops_data[k].name)
                      /\ \A j \in 1..(k - 1) : ~name_contains(d, gflops_data[j].name)
         IN  gflops_data[i].total_gflops

\* baseline() has an entry for d with the mean utilization and the throughput.
BaselineEntryOk(d) ==
    /\ d \in DOMAIN analysis.ret
    /\ analysis.ret[d].avg_utilization.num * Cardinality(ReadingsOf(d))
         = SumSm(ReadingsOf(d)) * analysis.ret[d].avg_utilization.den
    /\ analysis.ret[d].gflops = FirstMatchingThroughput(d)

C20_EmptyInputZeroSummary ==
    monitoring_data = <<>> =>
        /\ analysis.fn = "analyze_single_gpu_baseline" => DOMAIN analysis.ret = {}
        /\ analysis.fn = "analyze_all_gpu_stress" =>
              /\ "total_gpu_count" \in DOMAIN analysis.ret
              /\ analysis.ret.total_gpu_count = 0
              /\ analysis.ret.total_gflops = 0

\* C20 (as amended): on an empty sample set baseline() and stress() both
\* return an empty mapping, which holds no device count at all; neither
\* raises.
C20_EmptyInputEmptyMapping ==
    (monitoring_data = <<>> /\ analysis.fn \in {"analyze_single_gpu_baseline",
                                                "analyze_all_gpu_stress"}) =>
        DOMAIN analysis.ret = {}

\* C20 witness: stress() was called on an empty sample set, with an
\* all-device log at hand, and returned the empty mapping.
C20_Witness ==
    /\ monitoring_data = <<>>
    /\ Len(gflops_data) = 1
    /\ gflops_data[1].name.kind = "all"
    /\ analysis.fn = "analyze_all_gpu_stress"
    /\ DOMAIN analysis.ret = {}

(***************************************************************************)
(* Properties of the collector                                             *)
(***************************************************************************)

RequestedIds == {queries.gpu_ids[i] : i \in 1..Len(queries.gpu_ids)}

\* The query's first attempt timed out, and what the claim asks of it then.
TimedOut(q) == q.calls[1] = "timeout"
Retried(q) ==
    /\ Len(q.calls) > 1
    /\ Len(q.calls) <= ConfigMaxRetries
    /\ q.delays = Len(q.calls) - 1
    /\ q.calls[Len(q.calls)] = "timeout" => Len(q.calls) = ConfigMaxRetries

\* C12: a utilization or detail query of the sampling loop that times out
\* is attempted again, up to the configured number of attempts with a delay
\* between attempts, and a degraded result is returned only after the last
\* attempt.
C12_TimeoutIsRetried ==
    (queries.made /\ queries.asked) =>
        /\ TimedOut(queries.dmon) => Retried(queries.dmon)
        /\ TimedOut(queries.batch) => Retried(queries.batch)

\* The external query failed: timeout, non-zero exit, or an output that
\* cannot be parsed (an exception while parsing, or no well-formed line).
HardFailure(q) == q.calls[Len(q.calls)] # "ok" \/ q.raised
Failed(q) == HardFailure(q) \/ q.noise.kind = "alljunk"

IsSentinelDetail(d) == d.temperature = 0 /\ d.power = 0 /\ d.fb_mem_util_pct = 0

\* C13 (as stated): after any failure of the external query the mapping
\* returned binds every requested device id to the sentinel values.
C13_FailureBindsEveryId ==
    (queries.made /\ queries.asked) =>
        /\ Failed(queries.dmon) =>
              \A gid \in RequestedIds :
                  /\ gid \in DOMAIN queries.dmon.ret
                  /\ queries.dmon.ret[gid] = SentinelUtil
        /\ Failed(queries.batch) =>
              \A gid \in RequestedIds :
                  /\ gid \in DOMAIN queries.batch.ret
                  /\ IsSentinelDetail(queries.batch.ret[gid])

\* C13 (as amended): get_batch_gpu_data binds every requested id, to the
\* sentinel values after a failure; get_dmon_utilization binds every
\* requested id to sm = 0, mem = 0 after a timeout, a non-zero exit or an
\* exception while parsing, and returns an empty mapping for an output
\* without a well-formed line, which the sampler reads as sm = 0, mem = 0;
\* the sample holds a record for every requested id.
C13_FailureYieldsSentinelReadings ==
    (queries.made /\ queries.asked) =>
        /\ RequestedIds \subseteq DOMAIN queries.batch.ret
        /\ Failed(queries.batch) =>
              \A gid \in RequestedIds : IsSentinelDetail(queries.batch.ret[gid])
        /\ HardFailure(queries.dmon) =>
              /\ DOMAIN queries.dmon.ret = RequestedIds
              /\ \A gid \in RequestedIds : queries.dmon.ret[gid] = SentinelUtil
        /\ (~HardFailure(queries.dmon) /\ queries.dmon.noise.kind = "alljunk") =>
              DOMAIN queries.dmon.ret = {}
        /\ Failed(queries.dmon) =>
              \A i \in 1..Len(gpu_sample.gpus) :
                  /\ gpu_sample.gpus[i].sm_utilization = 0
                  /\ gpu_sample.gpus[i].memory_utilization = 0
        /\ gpu_sample.collected
        /\ Len(gpu_sample.gpus) = Len(queries.gpu_ids)
        /\ \A i \in 1..Len(gpu_sample.gpus) :
              gpu_sample.gpus[i].gpu_id = queries.gpu_ids[i]

\* C13 witness: with no restriction the utilization query timed out and the
\* detail query lost the line of device 1; all devices are bound to
\* sm = 0, mem = 0 and device 1 to the default details.
C13_Witness ==
    /\ queries.made
    /\ queries.asked
    /\ ~cuda_visible.set
    /\ Len(queries.gpu_ids) = NumGpus
    /\ queries.dmon.calls = <<"timeout">>
    /\ \A gid \in RequestedIds : queries.dmon.ret[gid] = SentinelUtil
    /\ queries.batch.noise = [kind |-> "junk", dev |-> 1]
    /\ queries.batch.ret[1] = get_default_gpu_data
    /\ queries.batch.ret[0].temperature = ToolTemp(0)

\* The token names the physical device phy, by index or by UUID.
Names(tok, phy) == tok.n = phy /\ phy \in Nat

\* Physical to logical and back through the list gives the physical index.
RoundTrip(q) ==
    \A phy \in DOMAIN q.p2v :
        /\ q.p2v[phy] \in 0..(Len(cuda_visible.toks) - 1)
        /\ Names(cuda_visible.toks[q.p2v[phy] + 1], phy)

\* Every entry that can be resolved has its physical index in the map.
Complete(q) ==
    q.listings # <<>> =>
        \A i \in 1..Len(cuda_visible.toks) :
            LET tok == cuda_visible.toks[i]
            IN  (tok.kind = "idx" \/ (q.listings[1] /\ tok.n \in PhysIds)) =>
                    tok.n \in DOMAIN q.p2v

\* C15: for every visibility list, the physical-to-visible map sends each
\* physical index of the list to a logical index whose listed entry names
\* that physical index.
C15_MapRoundTrip ==
    (queries.made /\ queries.asked) =>
        /\ RoundTrip(queries.dmon) /\ Complete(queries.dmon)
        /\ RoundTrip(queries.batch) /\ Complete(queries.batch)

\* C15 witness: the list "1,0": physical 1 is logical 0 and physical 0 is
\* logical 1, as the utilization query used them.
C15_Witness ==
    /\ queries.made
    /\ queries.asked
    /\ cuda_visible.toks = <<[kind |-> "idx", n |-> 1], [kind |-> "idx", n |-> 0]>>
    /\ DOMAIN queries.dmon.p2v = {0, 1}
    /\ queries.dmon.p2v[1] = 0
    /\ queries.dmon.p2v[0] = 1

\* Both queries of the tick succeeded with a clean output.
CleanTick ==
    /\ queries.made
    /\ queries.asked
    /\ queries.dmon.calls = <<"ok">>
    /\ queries.dmon.noise.kind = "none"
    /\ queries.batch.calls = <<"ok">>
    /\ queries.batch.noise.kind = "none"

\* The reading is the one the tool reports for the physical device phy.
ReadingOfDevice(g, phy) ==
    /\ g.sm_utilization = ToolSm(phy)
    /\ g.memory_utilization = ToolMem(phy)
    /\ g.temperature = ToolTemp(phy)
    /\ g.power = ToolPower(phy)

\* C16: with n numeric entries in the visibility setting the devices of a
\* sample are reported under the logical ids 0..n-1, the reading under v
\* being that of the physical device of the v-th entry; with no setting
\* the ids are the physical indices.
C16_LogicalIdsReported ==
    CleanTick =>
        /\ (cuda_visible.set /\ \A i \in 1..Len(cuda_visible.toks) :
                                    cuda_visible.toks[i].kind = "idx") =>
              /\ {gpu_sample.gpus[i].gpu_id : i \in 1..Len(gpu_sample.gpus)}
                     = 0..(Len(cuda_visible.toks) - 1)
              /\ \A i \in 1..Len(gpu_sample.gpus) :
                    LET g == gpu_sample.gpus[i]
                    IN  /\ g.gpu_id < Len(cuda_visible.toks)
                        /\ ReadingOfDevice(g, cuda_visible.toks[g.gpu_id + 1].n)
        /\ (~cuda_visible.set /\ queries.discovery = <<TRUE>>) =>
              /\ Len(gpu_sample.gpus) = NumGpus
              /\ \A i \in 1..Len(gpu_sample.gpus) :
                    /\ gpu_sample.gpus[i].gpu_id = i - 1
                    /\ ReadingOfDevice(gpu_sample.gpus[i], i - 1)

(***************************************************************************)
(* Properties of the log parser                                            *)
(***************************************************************************)

\* The positions of the lines that hold at least one match.
MatchingLines == {i \in 1..Len(log_file.lines) : log_file.lines[i].matches # <<>>}

\* C21: the throughput parsed from a readable log is the sum of the matches
\* on the last line that holds a match and the device count is the number
\* of matches on that line; earlier lines do not contribute; a log without
\* a match gives (0, 0).
C21_LastMatchingLine ==
    (analysis.fn = "parse_gpu_burn_logs" /\ log_file.readable) =>
        IF MatchingLines = {}
        THEN analysis.ret = [total_gflops |-> 0, gpu_count |-> 0]
        ELSE LET last == CHOOSE i \in MatchingLines : \A j \in MatchingLines : j <= i
             IN  /\ analysis.ret.total_gflops = SumSeq(log_file.lines[last].matches)
                 /\ analysis.ret.gpu_count = Len(log_file.lines[last].matches)

\* C21 witness: a log whose first line reports 700 and whose last matching
\* line reports 500 and 600, followed by a line without a match, has been
\* parsed to 1100 Gflop/s from 2 devices.
C21_Witness ==
    /\ analysis.fn = "parse_gpu_burn_logs"
    /\ log_file.readable
    /\ Len(log_file.lines) = 3
    /\ log_file.lines[1].matches = <<700>>
    /\ log_file.lines[2].matches = <<500, 600>>
    /\ log_file.lines[3].matches = <<>>
    /\ analysis.ret = [total_gflops |-> 1100, gpu_count |-> 2]

(***************************************************************************)
(* Properties of a run                                                     *)
(***************************************************************************)

\* C22 (as stated): when the discovery query fails, the run ends with a
\* failure result and no tick is executed: no device query is made and no
\* sample is collected.
C22_DiscoveryFailureStopsRun ==
    (run.state # "none" /\ run.discovery_failed) =>
        /\ run.ticks = 0
        /\ ~gpu_sample.collected
        /\ run.state = "done" => run.exit # 0

\* C28 (as stated): during a run of any number of ticks the discovery query
\* and the index,identifier listing query are each made at most once.
C28_ResolvedOncePerRun ==
    run.state # "none" => (run.discoveries <= 1 /\ run.listings <= 1)

(***************************************************************************)
(* Properties of the collector under opaque and repeated entries           *)
(***************************************************************************)

\* The i-th entry of the setting is an opaque identifier that the
\* index,identifier listing holds.
ListedIdentifier(i) ==
    /\ cuda_visible.toks[i].kind = "uuid"
    /\ cuda_visible.toks[i].n \in PhysIds

\* The tick met no failing query and no malformed output.
UndisturbedTick ==
    /\ queries.made
    /\ queries.asked =>
          /\ CleanTick
          /\ \A i \in 1..Len(queries.dmon.listings) : queries.dmon.listings[i]
          /\ \A i \in 1..Len(queries.batch.listings) : queries.batch.listings[i]

\* C29 (as stated): a device named in the setting by an opaque identifier
\* that the listing holds is monitored under the logical id of its position:
\* the sample holds its reading under that id.
C29_IdentifierEntryMonitored ==
    (UndisturbedTick /\ cuda_visible.set) =>
        \A i \in 1..Len(cuda_visible.toks) :
            ListedIdentifier(i) =>
                \E j \in 1..Len(gpu_sample.gpus) :
                    /\ gpu_sample.gpus[j].gpu_id = i - 1
                    /\ ReadingOfDevice(gpu_sample.gpus[j], cuda_visible.toks[i].n)

\* C30 (as stated): no two readings of a sample carry the same device id.
C30_DeviceIdsUnique ==
    queries.made =>
        \A i, j \in 1..Len(gpu_sample.gpus) :
            i # j => gpu_sample.gpus[i].gpu_id # gpu_sample.gpus[j].gpu_id

\* The device ids of the sample's readings, in order.
SampleIds == [i \in 1..Len(gpu_sample.gpus) |-> gpu_sample.gpus[i].gpu_id]

\* C31: the device list of a sample holds one reading for each device id
\* the discovery returned, in that order (every merged reading passes the
\* validator); a device whose utilization query failed carries utilization
\* 0, and a device whose detail query failed carries the default detail
\* values, in place of being absent.
C31_EveryDiscoveredDeviceReported ==
    queries.made =>
        /\ SampleIds = queries.gpu_ids
        /\ queries.asked =>
              \A i \in 1..Len(gpu_sample.gpus) :
                  LET g == gpu_sample.gpus[i]
                  IN  /\ HardFailure(queries.dmon) =>
                            (g.sm_utilization = 0 /\ g.memory_utilization = 0)
                      /\ HardFailure(queries.batch) =>
                            (IsSentinelDetail(g) /\ g.fb_mem_total_mib = 1)

\* C31 witness: with all devices discovered, the detail query timed out and
\* the utilization query answered: every device is in the sample, the second
\* with its measured utilization and the default detail values.
C31_Witness ==
    /\ queries.made
    /\ ~cuda_visible.set
    /\ queries.discovery = <<TRUE>>
    /\ queries.batch.calls = <<"timeout">>
    /\ queries.dmon.calls = <<"ok">>
    /\ queries.dmon.noise.kind = "none"
    /\ Len(gpu_sample.gpus) = NumGpus
    /\ gpu_sample.gpus[2].gpu_id = 1
    /\ gpu_sample.gpus[2].sm_utilization = ToolSm(1)
    /\ gpu_sample.gpus[2].temperature = 0

\* C32: when the discovery yields no device, collect_gpu_data returns a
\* sample with an empty device list and makes no utilization or detail
\* query; the loop pushes the sample and goes on (no failure ends the run).
C32_NoDeviceGivesEmptySample ==
    (run.state # "none" /\ queries.made /\ queries.gpu_ids = <<>>) =>
        /\ gpu_sample = [collected |-> TRUE, gpus |-> <<>>]
        /\ ~queries.asked
        /\ run.pushes = run.ticks
        /\ run.state = "done" => run.exit = 0

\* C32 witness: with CUDA_VISIBLE_DEVICES set to the empty string, two ticks
\* have each returned an empty sample that was pushed, and the loop runs on.
C32_Witness ==
    /\ run.state = "running"
    /\ cuda_visible = [set |-> TRUE, toks |-> <<>>]
    /\ run.ticks = 2
    /\ run.pushes = 2
    /\ queries.made
    /\ ~queries.asked
    /\ gpu_sample = [collected |-> TRUE, gpus |-> <<>>]

(***************************************************************************)
(* Properties of the host snapshot                                         *)
(***************************************************************************)

\* C33 (as stated): every metric of a snapshot returned by get_system_basic
\* is non-negative, a host without swap included.
C33_SnapshotNonNegative ==
    system_basic.made > 0 =>
        \A m \in DOMAIN system_basic.ret : system_basic.ret[m] >= 0

\* C34 (as stated): the failure of one source leaves the metrics of the
\* other sources at their measured values: the memory metrics when psutil's
\* memory query answered, the context-switch rate when /proc/stat was read.
C34_FailureIsolatedPerMetric ==
    (system_basic.made > 0 /\ system_basic.src.psutil # "memory_raises") =>
        /\ system_basic.ret.memory_utilization = psutil_reading("memory_percent")
        /\ system_basic.src.stat_readable =>
              system_basic.ret.context_switches_per_sec =
                  get_context_switches(system_basic.before, TRUE, system_basic.src.ctxt,
                                       system_basic.src.now).ret

(***************************************************************************)
(* Properties of the collector under malformed lines                       *)
(***************************************************************************)

\* C35 (as stated): with all devices discovered and the utilization query
\* answering, a malformed line for one device (a line that is no data line,
\* or a device index followed by a token that is no number) leaves the
\* utilization readings of the other devices as the tool reported them.
C35_MalformedLineSkipped ==
    (/\ queries.made /\ queries.asked
     /\ ~cuda_visible.set /\ queries.discovery = <<TRUE>>
     /\ queries.dmon.calls = <<"ok">>
     /\ queries.dmon.noise.kind \in {"junk", "dash"}) =>
        \A i \in 1..Len(gpu_sample.gpus) :
            LET g == gpu_sample.gpus[i]
            IN  g.gpu_id # queries.dmon.noise.dev =>
                    /\ g.sm_utilization = ToolSm(g.gpu_id)
                    /\ g.memory_utilization = ToolMem(g.gpu_id)

(***************************************************************************)
(* Properties of the reducers: temperature spread and log matching         *)
(***************************************************************************)

\* C36 (as stated): in the phase data at hand every device reports the same
\* temperature at every timestamp (device d reports 60 + d), so the
\* temp_delta of a stress summary is 0.
C36_TempDeltaIsOverTime ==
    (analysis.fn = "analyze_all_gpu_stress" /\ "temp_delta" \in DOMAIN analysis.ret) =>
        analysis.ret.temp_delta = 0

\* The throughputs of the log entries named for device d.
ThroughputsOf(d) ==
    {gflops_data[i].total_gflops :
        i \in {k \in 1..Len(gflops_data) :
                  gflops_data[k].name.kind = "single" /\ gflops_data[k].name.dev = d}}

\* C37 (as stated): the throughput baseline() gives to device d is that of
\* a log entry named for device d, or 0 when it found none.
C37_ThroughputOfOwnLog ==
    analysis.fn = "analyze_single_gpu_baseline" =>
        \A d \in DOMAIN analysis.ret :
            analysis.ret[d].gflops \in ThroughputsOf(d) \cup {0}

(***************************************************************************)
(* Properties of a monitor started again                                   *)
(***************************************************************************)

\* The final write of the first run.
FirstFinalSave == CHOOSE f \in FinalSaves : \A g \in FinalSaves : f <= g

OkSavesUpTo(n) == {i \in 1..n : saves[i].ok}

\* The file that the calls of _save_data up to the n-th had written is
\* still as the last of them left it.
FileKeptFrom(n) ==
    IF OkSavesUpTo(n) = {}
    THEN TRUE
    ELSE LET m == CHOOSE i \in OkSavesUpTo(n) : \A k \in OkSavesUpTo(n) : k <= i
         IN  /\ file.written
             /\ file.is_final = saves[m].is_final
             /\ file.samples = saves[m].samples

====
